---- MODULE Spec2Model ----
(***************************************************************************)
(* A model of json-rs: the character-by-character JSON parser              *)
(* (json_parse / json_parse_internal), its automata and accumulators, and  *)
(* the serializer (to_string / escape_str).                                *)
(*                                                                         *)
(* Characters are Unicode code points (naturals); a Rust String is a       *)
(* sequence of code points.  Option<T> is <<>> (None) or <<x>> (Some(x)).  *)
(***************************************************************************)
EXTENDS Integers, Sequences, FiniteSets, TLC

\* ------------------------------------------------------------------------
\* Characters
\* ------------------------------------------------------------------------

\* The character literals the sources match on, as code points.
Ch == [ quote |-> 34, backslash |-> 92, lbracket |-> 91, rbracket |-> 93,
        lbrace |-> 123, rbrace |-> 125, comma |-> 44, colon |-> 58,
        minus |-> 45, plus |-> 43, dot |-> 46, zero |-> 48, one |-> 49,
        nine |-> 57, e |-> 101, E |-> 69,
        t |-> 116, r |-> 114, u |-> 117, f |-> 102, a |-> 97, l |-> 108,
        s |-> 115, n |-> 110, b |-> 98, i |-> 105, D |-> 68,
        space |-> 32, newline |-> 10, tab |-> 9, cr |-> 13,
        backspace |-> 8, formfeed |-> 12, del |-> 127, soh |-> 1,
        us |-> 31 ]

\* char::is_whitespace: the Unicode White_Space property.
IsWhitespace(c) ==
    \/ c \in 9..13
    \/ c \in {32, 133, 160, 5760, 8232, 8233, 8239, 8287, 12288}
    \/ c \in 8192..8202

\* char::is_control: the Unicode general category Cc.
IsControl(c) == c \in 0..31 \/ c \in 127..159

\* char::is_digit(10)
IsDigit10(c) == c \in 48..57

\* char::is_digit(16)
IsDigit16(c) == c \in 48..57 \/ c \in 65..70 \/ c \in 97..102

\* char::to_digit(16) of a hexadecimal digit
HexValue(c) ==
    IF c \in 48..57 THEN c - 48
    ELSE IF c \in 65..70 THEN c - 55
    ELSE c - 87

\* c.eq_ignore_ascii_case(&'e')
IsExpChar(c) == c = Ch.e \/ c = Ch.E

\* str::trim().len() > 0
TrimNonEmpty(s) == \E k \in 1..Len(s) : ~IsWhitespace(s[k])

\* ------------------------------------------------------------------------
\* Option and Result
\* ------------------------------------------------------------------------

None == <<>>

Some(x) == <<x>>

\* PendingStack::push results: Ok(bool) or Err(char), with the automaton as
\* the call leaves it.
PushOk(done, stack) == [ok |-> TRUE, done |-> done, stack |-> stack]

PushErr(c, stack) == [ok |-> FALSE, err |-> c, stack |-> stack]

\* ------------------------------------------------------------------------
\* StackCounter: the depth / quote tracker (stack/mod.rs)
\* ------------------------------------------------------------------------

StackCounterNew == [inner |-> <<>>, in_string |-> FALSE, escape |-> FALSE]

\* A faulty push: brackets count inside strings too.
StackCounterPushInString(counter, c) ==
    IF c \in {Ch.lbrace, Ch.lbracket}
    THEN [ok |-> TRUE, counter |-> [counter EXCEPT !.inner = Append(@, c)]]
    ELSE IF c \in {Ch.rbrace, Ch.rbracket}
    THEN [ok |-> counter.inner # <<>>,
          counter |-> [counter EXCEPT
                          !.inner = SubSeq(@, 1, Len(@) - 1)]]
    ELSE IF counter.escape
    THEN [ok |-> TRUE, counter |-> [counter EXCEPT !.escape = FALSE]]
    ELSE IF c = Ch.backslash /\ counter.in_string
    THEN [ok |-> TRUE, counter |-> [counter EXCEPT !.escape = TRUE]]
    ELSE IF c = Ch.quote
    THEN [ok |-> TRUE,
          counter |-> [counter EXCEPT !.in_string = ~counter.in_string]]
    ELSE [ok |-> TRUE, counter |-> counter]

\* A faulty push: a close bracket pops whatever bracket is open.
StackCounterPushAnyClose(counter, c) ==
    IF c \in {Ch.lbrace, Ch.lbracket} /\ ~counter.in_string
    THEN [ok |-> TRUE, counter |-> [counter EXCEPT !.inner = Append(@, c)]]
    ELSE IF c \in {Ch.rbrace, Ch.rbracket} /\ ~counter.in_string
    THEN [ok |-> counter.inner # <<>>,
          counter |-> [counter EXCEPT !.inner = SubSeq(@, 1, Len(@) - 1)]]
    ELSE IF counter.escape
    THEN [ok |-> TRUE, counter |-> [counter EXCEPT !.escape = FALSE]]
    ELSE IF c = Ch.backslash /\ counter.in_string
    THEN [ok |-> TRUE, counter |-> [counter EXCEPT !.escape = TRUE]]
    ELSE IF c = Ch.quote
    THEN [ok |-> TRUE,
          counter |-> [counter EXCEPT !.in_string = ~counter.in_string]]
    ELSE [ok |-> TRUE, counter |-> counter]

\* A faulty push: the quote arm comes before the escape arm, so an
\* escaped quote closes the string and leaves the escape pending.
StackCounterPushQuoteFirst(counter, c) ==
    IF c \in {Ch.lbrace, Ch.lbracket} /\ ~counter.in_string
    THEN [ok |-> TRUE, counter |-> [counter EXCEPT !.inner = Append(@, c)]]
    ELSE IF c \in {Ch.rbrace, Ch.rbracket} /\ ~counter.in_string
    THEN IF counter.inner = <<>>
         THEN [ok |-> FALSE, counter |-> counter]
         ELSE [ok |-> (counter.inner[Len(counter.inner)] = Ch.lbracket
                           /\ c = Ch.rbracket)
                      \/ (counter.inner[Len(counter.inner)] = Ch.lbrace
                           /\ c = Ch.rbrace),
               counter |-> [counter EXCEPT
                               !.inner = SubSeq(@, 1, Len(@) - 1)]]
    ELSE IF c = Ch.quote
    THEN [ok |-> TRUE,
          counter |-> [counter EXCEPT !.in_string = ~counter.in_string]]
    ELSE IF counter.escape
    THEN [ok |-> TRUE, counter |-> [counter EXCEPT !.escape = FALSE]]
    ELSE IF c = Ch.backslash /\ counter.in_string
    THEN [ok |-> TRUE, counter |-> [counter EXCEPT !.escape = TRUE]]
    ELSE [ok |-> TRUE, counter |-> counter]

\* A faulty push: a backslash inside a string starts no escape, so the
\* quote after it closes the string.
StackCounterPushNoEscape(counter, c) ==
    IF c \in {Ch.lbrace, Ch.lbracket} /\ ~counter.in_string
    THEN [ok |-> TRUE, counter |-> [counter EXCEPT !.inner = Append(@, c)]]
    ELSE IF c \in {Ch.rbrace, Ch.rbracket} /\ ~counter.in_string
    THEN IF counter.inner = <<>>
         THEN [ok |-> FALSE, counter |-> counter]
         ELSE LET last == counter.inner[Len(counter.inner)]
                  popped == [counter EXCEPT
                                !.inner = SubSeq(@, 1, Len(@) - 1)]
                  matches == IF last = Ch.lbracket THEN c = Ch.rbracket
                             ELSE IF last = Ch.lbrace THEN c = Ch.rbrace
                             ELSE FALSE
              IN  [ok |-> matches, counter |-> popped]
    ELSE IF counter.escape
    THEN [ok |-> TRUE, counter |-> [counter EXCEPT !.escape = FALSE]]
    ELSE IF c = Ch.quote
    THEN [ok |-> TRUE,
          counter |-> [counter EXCEPT !.in_string = ~counter.in_string]]
    ELSE [ok |-> TRUE, counter |-> counter]

\* StackCounter::push.  Result: [ok, counter].  The pop of a close bracket
\* happens before the filter, so the counter a failed push leaves behind has
\* lost its top bracket.
StackCounterPush(counter, c) ==
    IF c \in {Ch.lbrace, Ch.lbracket} /\ ~counter.in_string
    THEN [ok |-> TRUE, counter |-> [counter EXCEPT !.inner = Append(@, c)]]
    ELSE IF c \in {Ch.rbrace, Ch.rbracket} /\ ~counter.in_string
    THEN IF counter.inner = <<>>
         THEN [ok |-> FALSE, counter |-> counter]
         ELSE LET last == counter.inner[Len(counter.inner)]
                  popped == [counter EXCEPT
                                !.inner = SubSeq(@, 1, Len(@) - 1)]
                  matches == IF last = Ch.lbracket THEN c = Ch.rbracket
                             ELSE IF last = Ch.lbrace THEN c = Ch.rbrace
                             ELSE FALSE
              IN  [ok |-> matches, counter |-> popped]
    ELSE IF counter.escape
    THEN [ok |-> TRUE, counter |-> [counter EXCEPT !.escape = FALSE]]
    ELSE IF c = Ch.backslash /\ counter.in_string
    THEN [ok |-> TRUE, counter |-> [counter EXCEPT !.escape = TRUE]]
    ELSE IF c = Ch.quote
    THEN [ok |-> TRUE,
          counter |-> [counter EXCEPT !.in_string = ~counter.in_string]]
    ELSE [ok |-> TRUE, counter |-> counter]

\* StackCounter::level
Level(counter) == Len(counter.inner)

\* ------------------------------------------------------------------------
\* JsonValue (lib.rs)
\* ------------------------------------------------------------------------

JText(s) == [tag |-> "Text", text |-> s]

JNumber(n) == [tag |-> "Number", num |-> n]

JBoolean(b) == [tag |-> "Boolean", bool |-> b]

JNull == [tag |-> "Null"]

JArray(items) == [tag |-> "Array", items |-> items]

\* An Object holds a HashMap: a function from its keys to their values.
JObject(map) == [tag |-> "Object", map |-> map]

\* ------------------------------------------------------------------------
\* f64: a finite double is its shortest decimal form digits * 10^exp
\* (digits without leading or trailing zero, <<>> for zero), or an infinity.
\* ------------------------------------------------------------------------

\* The largest and smallest decimal exponents of a double's scientific
\* form: values from 1.798e308 on round to infinity, values below 1e-324
\* round to zero.
F64MaxExp10 == 308

F64MinExp10 == -324

RECURSIVE StripLeadingZeros(_)
StripLeadingZeros(ds) ==
    IF ds # <<>> /\ ds[1] = Ch.zero THEN StripLeadingZeros(Tail(ds)) ELSE ds

RECURSIVE StripTrailingZeros(_)
StripTrailingZeros(ds) ==
    IF ds # <<>> /\ ds[Len(ds)] = Ch.zero
    THEN StripTrailingZeros(SubSeq(ds, 1, Len(ds) - 1))
    ELSE ds

\* Whether the digits d1 d2 d3 ... read as d1.d2d3... reach 1.7976931348623158,
\* the decimal digits of the first double that rounds to infinity.
RECURSIVE DigitsAtLeast(_, _)
DigitsAtLeast(ds, limit) ==
    IF limit = <<>> THEN TRUE
    ELSE IF ds = <<>> THEN \A k \in 1..Len(limit) : limit[k] = Ch.zero
    ELSE IF ds[1] # limit[1] THEN ds[1] > limit[1]
    ELSE DigitsAtLeast(Tail(ds), Tail(limit))

F64OverflowDigits == <<49, 55, 57, 55, 54, 57, 51, 49, 51, 52, 56, 54, 50, 51, 49, 53, 56>>

\* PartialEq on f64 makes -0.0 equal to 0.0: the model keeps one zero.
F64Zero == [neg |-> FALSE, digits |-> <<>>, exp |-> 0, inf |-> FALSE]

F64Inf(neg) == [neg |-> neg, digits |-> <<>>, exp |-> 0, inf |-> TRUE]

\* The double nearest to (-1)^neg * ds * 10^exp10, ds a digit string.
MkF64(neg, ds, exp10) ==
    LET lead == StripLeadingZeros(ds)
        sig == StripTrailingZeros(lead)
        exp == exp10 + (Len(lead) - Len(sig))
        sci == exp + Len(sig) - 1
    IN  IF sig = <<>> THEN F64Zero
        ELSE IF sci > F64MaxExp10 THEN F64Inf(neg)
        ELSE IF sci = F64MaxExp10 /\ DigitsAtLeast(sig, F64OverflowDigits)
        THEN F64Inf(neg)
        ELSE IF sci < F64MinExp10 THEN F64Zero
        ELSE [neg |-> neg, digits |-> sig, exp |-> exp, inf |-> FALSE]

\* The value of a string of decimal digits (an exponent's digits).
RECURSIVE DigitsToNat(_)
DigitsToNat(ds) ==
    IF ds = <<>> THEN 0
    ELSE 10 * DigitsToNat(SubSeq(ds, 1, Len(ds) - 1)) + (ds[Len(ds)] - 48)

\* Index of the first occurrence of c in s, Len(s) + 1 if there is none.
IndexOf(s, c) ==
    IF \E k \in 1..Len(s) : s[k] = c
    THEN CHOOSE k \in 1..Len(s) : s[k] = c /\ \A j \in 1..(k - 1) : s[j] # c
    ELSE Len(s) + 1

AllDigits(s) == \A k \in 1..Len(s) : IsDigit10(s[k])

\* <f64 as FromStr>::from_str on the texts NumberStack::stringify builds:
\* [-]digits[.digits][e[sign]digits].  None (a parse error) when the
\* mantissa has no digit or an exponent mark has no digit after it.
ParseF64(str) ==
    LET neg == str # <<>> /\ str[1] = Ch.minus
        body == IF neg THEN Tail(str) ELSE str
        ePos == IndexOf(body, Ch.e)
        mant == SubSeq(body, 1, ePos - 1)
        hasExp == ePos <= Len(body)
        expPart == SubSeq(body, ePos + 1, Len(body))
        dotPos == IndexOf(mant, Ch.dot)
        whole == SubSeq(mant, 1, dotPos - 1)
        decimal == SubSeq(mant, dotPos + 1, Len(mant))
        signed == expPart # <<>> /\ expPart[1] \in {Ch.plus, Ch.minus}
        expNeg == signed /\ expPart[1] = Ch.minus
        expDigits == IF signed THEN Tail(expPart) ELSE expPart
        expAbs == DigitsToNat(StripLeadingZeros(expDigits))
        exp10 == (IF expNeg THEN 0 - expAbs ELSE expAbs) - Len(decimal)
    IN  IF \/ whole \o decimal = <<>>
           \/ ~AllDigits(whole) \/ ~AllDigits(decimal)
           \/ (hasExp /\ (expDigits = <<>> \/ ~AllDigits(expDigits)))
        THEN None
        ELSE Some(MkF64(neg, whole \o decimal, exp10))

\* ------------------------------------------------------------------------
\* StringMatcherStack, BoolStack, NullStack (stack/pending.rs)
\* ------------------------------------------------------------------------

BOOL_STRS == { <<116, 114, 117, 101>>, <<102, 97, 108, 115, 101>> }

NULL_STRS == { <<110, 117, 108, 108>> }

IsPrefixOf(p, s) == Len(p) <= Len(s) /\ SubSeq(s, 1, Len(p)) = p

\* A faulty StringMatcherStack::push: it reports completion as soon as the
\* text is a prefix of a matcher, so into_json fails under the unwrap.
StringMatcherPushEager(stack, c) ==
    LET concatenated == Append(stack.inner_string, c)
    IN  IF \E m \in stack.matchers : IsPrefixOf(concatenated, m)
        THEN PushOk(TRUE, [stack EXCEPT !.inner_string = concatenated])
        ELSE PushErr(c, stack)

\* A faulty StringMatcherStack::push: a character is refused only when the
\* text would be longer than every matcher, so a mismatch is found late.
StringMatcherPushBuffering(stack, c) ==
    LET concatenated == Append(stack.inner_string, c)
    IN  IF \E m \in stack.matchers : Len(concatenated) <= Len(m)
        THEN PushOk(concatenated \in stack.matchers,
                    [stack EXCEPT !.inner_string = concatenated])
        ELSE PushErr(c, stack)

\* StringMatcherStack::push
StringMatcherPush(stack, c) ==
    LET concatenated == Append(stack.inner_string, c)
    IN  IF \E m \in stack.matchers : IsPrefixOf(concatenated, m)
        THEN PushOk(concatenated \in stack.matchers,
                    [stack EXCEPT !.inner_string = concatenated])
        ELSE PushErr(c, stack)

\* StringMatcherStack::into_string
StringMatcherIntoString(stack) ==
    IF stack.inner_string \in stack.matchers
    THEN Some(stack.inner_string) ELSE None

\* BoolStack::init_true / init_false
BoolStackInit(c) == [kind |-> "Bool", matchers |-> BOOL_STRS, inner_string |-> <<c>>]

\* NullStack::init_n
NullStackInit == [kind |-> "Null", matchers |-> NULL_STRS, inner_string |-> <<Ch.n>>]

\* IntoJson for BoolStack: the matched literal parsed as a bool
BoolIntoJson(stack) ==
    LET s == StringMatcherIntoString(stack)
    IN  IF s = None THEN None ELSE Some(JBoolean(s[1][1] = Ch.t))

\* IntoJson for NullStack
NullIntoJson(stack) ==
    IF StringMatcherIntoString(stack) = None THEN None ELSE Some(JNull)

\* ------------------------------------------------------------------------
\* EscapeSequence and TextStack (stack/pending.rs)
\* ------------------------------------------------------------------------

\* EscapeSequence.inner: None, SimpleChar(c) or Unicode(s)
EscapeSequenceNew == [type |-> "None"]

\* A faulty escape table: an escape letter stands for itself.
SimpleEscapeLiteral(c) ==
    IF c \in {Ch.n, Ch.t, Ch.r, Ch.b, Ch.f, Ch.backslash, Ch.quote}
    THEN Some(c) ELSE None

\* The character a simple escape letter stands for; None if it is none.
SimpleEscape(c) ==
    IF c = Ch.n THEN Some(Ch.newline)
    ELSE IF c = Ch.t THEN Some(Ch.tab)
    ELSE IF c = Ch.r THEN Some(Ch.cr)
    ELSE IF c = Ch.b THEN Some(Ch.backspace)
    ELSE IF c = Ch.f THEN Some(Ch.formfeed)
    ELSE IF c = Ch.backslash \/ c = Ch.quote THEN Some(c)
    ELSE None

\* EscapeSequence::push.  Result: PushOk(complete, seq) or PushErr(c, seq).
EscapeSequencePush(seq, c) ==
    IF seq.type = "None"
    THEN IF c = Ch.u
         THEN PushOk(FALSE, [type |-> "Unicode", hex |-> <<>>])
         ELSE IF SimpleEscape(c) = None
         THEN PushErr(c, seq)
         ELSE PushOk(TRUE, [type |-> "SimpleChar", ch |-> SimpleEscape(c)[1]])
    ELSE IF seq.type = "Unicode" /\ IsDigit16(c) /\ Len(seq.hex) < 4
    THEN PushOk(Len(seq.hex) + 1 = 4, [seq EXCEPT !.hex = Append(@, c)])
    ELSE PushErr(c, seq)

\* u32::from_str_radix(s, 16) of four hexadecimal digits
HexToNat(s) ==
    HexValue(s[1]) * 4096 + HexValue(s[2]) * 256 + HexValue(s[3]) * 16
        + HexValue(s[4])

\* A faulty char::from_u32: a surrogate code counts as a character.
FromU32Any(code) == Some(code)

\* char::from_u32: every code but a surrogate is a character.
FromU32(code) == IF code \in 55296..57343 THEN None ELSE Some(code)

\* EscapeSequence::into_char
EscapeSequenceIntoChar(seq) ==
    IF seq.type = "Unicode" /\ Len(seq.hex) = 4 THEN FromU32(HexToNat(seq.hex))
    ELSE IF seq.type = "SimpleChar" THEN Some(seq.ch)
    ELSE None

\* TextStack::new.  escape: Option<EscapeSequence>
TextStackNew ==
    [kind |-> "Text", inner |-> <<>>, completed |-> FALSE, escape |-> None]

\* A faulty TextStack::push: a refused character is appended to the text
\* all the same.
TextStackPushConsuming(stack, c) ==
    IF stack.escape # None
    THEN LET taken == [stack EXCEPT !.escape = None]
             r == EscapeSequencePush(stack.escape[1], c)
             ch == EscapeSequenceIntoChar(r.stack)
         IN  IF ~r.ok THEN PushErr(c, taken)
             ELSE IF r.done
             THEN IF ch = None THEN PushErr(c, taken)
                  ELSE PushOk(FALSE, [taken EXCEPT !.inner = Append(@, ch[1])])
             ELSE PushOk(FALSE, [taken EXCEPT !.escape = Some(r.stack)])
    ELSE IF c = Ch.quote /\ ~stack.completed
    THEN PushOk(TRUE, [stack EXCEPT !.completed = TRUE])
    ELSE IF c = Ch.backslash /\ ~stack.completed
    THEN PushOk(FALSE, [stack EXCEPT !.escape = Some(EscapeSequenceNew)])
    ELSE IF ~stack.completed /\ ~IsControl(c)
    THEN PushOk(FALSE, [stack EXCEPT !.inner = Append(@, c)])
    ELSE PushErr(c, [stack EXCEPT !.inner = Append(@, c)])

\* TextStack::push.  self.escape.take() empties the escape before the
\* sequence is fed, so every early return leaves it None.
TextStackPush(stack, c) ==
    IF stack.escape # None
    THEN LET taken == [stack EXCEPT !.escape = None]
             r == EscapeSequencePush(stack.escape[1], c)
             ch == EscapeSequenceIntoChar(r.stack)
         IN  IF ~r.ok THEN PushErr(c, taken)
             ELSE IF r.done
             THEN IF ch = None THEN PushErr(c, taken)
                  ELSE PushOk(FALSE, [taken EXCEPT !.inner = Append(@, ch[1])])
             ELSE PushOk(FALSE, [taken EXCEPT !.escape = Some(r.stack)])
    ELSE IF c = Ch.quote /\ ~stack.completed
    THEN PushOk(TRUE, [stack EXCEPT !.completed = TRUE])
    ELSE IF c = Ch.backslash /\ ~stack.completed
    THEN PushOk(FALSE, [stack EXCEPT !.escape = Some(EscapeSequenceNew)])
    ELSE IF ~stack.completed /\ ~IsControl(c)
    THEN PushOk(FALSE, [stack EXCEPT !.inner = Append(@, c)])
    ELSE PushErr(c, stack)

\* A faulty IntoJson for TextStack: the text is handed out whether or not
\* the closing quote has arrived.
TextIntoJsonUnfinished(stack) == Some(JText(stack.inner))

\* IntoJson for TextStack
TextIntoJson(stack) ==
    IF stack.completed THEN Some(JText(stack.inner)) ELSE None

\* ------------------------------------------------------------------------
\* NumberStack (stack/pending.rs)
\* ------------------------------------------------------------------------

NumberStackNew ==
    [position |-> "Whole", positive |-> TRUE, whole |-> <<>>,
     decimal |-> <<>>, exponent |-> <<>>]

\* A faulty NumberStack::stringify: a number that stops right after its '.'
\* is written without the '.'.
NumberStringifyLoose(stack) ==
    IF \/ (stack.position = "Whole" /\ stack.whole = <<>>)
       \/ (stack.position = "Exponent" /\ stack.exponent = <<>>)
    THEN None
    ELSE Some((IF ~stack.positive THEN <<Ch.minus>> ELSE <<>>)
              \o stack.whole
              \o (IF stack.decimal # <<>> THEN <<Ch.dot>> \o stack.decimal
                  ELSE <<>>)
              \o (IF stack.exponent # <<>> THEN <<Ch.e>> \o stack.exponent
                  ELSE <<>>))

\* NumberStack::stringify
NumberStringify(stack) ==
    IF \/ (stack.position = "Whole" /\ stack.whole = <<>>)
       \/ (stack.position = "Decimal" /\ stack.decimal = <<>>)
       \/ (stack.position = "Exponent" /\ stack.exponent = <<>>)
    THEN None
    ELSE Some((IF ~stack.positive THEN <<Ch.minus>> ELSE <<>>)
              \o stack.whole
              \o (IF stack.decimal # <<>> THEN <<Ch.dot>> \o stack.decimal
                  ELSE <<>>)
              \o (IF stack.exponent # <<>> THEN <<Ch.e>> \o stack.exponent
                  ELSE <<>>))

\* A faulty NumberStack::can_push: an exponent mark is accepted right after
\* the '.', before any decimal digit.
NumberCanPushEarlyExponent(stack, c) ==
    IF stack.position = "Whole"
    THEN \/ (c = Ch.minus /\ stack.whole = <<>> /\ stack.positive)
         \/ (c = Ch.zero /\ stack.whole = <<>>)
         \/ (IsDigit10(c)
             /\ ((c # Ch.zero /\ stack.whole = <<>>) \/ Len(stack.whole) > 0))
         \/ (Len(stack.whole) > 0 /\ IsExpChar(c))
         \/ (c = Ch.dot /\ Len(stack.whole) > 0)
    ELSE IF stack.position = "Exponent"
    THEN IsDigit10(c) \/ ((c = Ch.plus \/ c = Ch.minus) /\ stack.exponent = <<>>)
    ELSE IF stack.position = "Decimal"
    THEN IsDigit10(c) \/ IsExpChar(c)
    ELSE c = Ch.dot

\* NumberStack::can_push
NumberCanPush(stack, c) ==
    IF stack.position = "Whole"
    THEN \/ (c = Ch.minus /\ stack.whole = <<>> /\ stack.positive)
         \/ (c = Ch.zero /\ stack.whole = <<>>)
         \/ (IsDigit10(c)
             /\ ((c # Ch.zero /\ stack.whole = <<>>) \/ Len(stack.whole) > 0))
         \/ (Len(stack.whole) > 0 /\ IsExpChar(c))
         \/ (c = Ch.dot /\ Len(stack.whole) > 0)
    ELSE IF stack.position = "Exponent"
    THEN IsDigit10(c) \/ ((c = Ch.plus \/ c = Ch.minus) /\ stack.exponent = <<>>)
    ELSE IF stack.position = "Decimal"
    THEN IsDigit10(c) \/ (Len(stack.decimal) > 0 /\ IsExpChar(c))
    ELSE c = Ch.dot

\* IntoJson for NumberStack: stringify, then parse as f64
NumberIntoJson(stack) ==
    LET s == NumberStringify(stack)
        n == ParseF64(s[1])
    IN  IF s = None THEN None
        ELSE IF n = None THEN None
        ELSE Some(JNumber(n[1]))

\* A faulty NumberStack::push: the arm for a first '0' leaves the position
\* at Whole, so digits may follow the zero.
NumberStackPushZeroWhole(stack, c) ==
    LET p == stack.position
    IN  IF p = "Whole" /\ c = Ch.minus /\ stack.whole = <<>> /\ stack.positive
        THEN PushOk(FALSE, [stack EXCEPT !.positive = FALSE])
        ELSE IF p = "Whole" /\ c = Ch.zero /\ stack.whole = <<>>
        THEN PushOk(FALSE, [stack EXCEPT !.whole = Append(@, c)])
        ELSE IF /\ p = "Whole" /\ IsDigit10(c)
                /\ ((stack.whole = <<>> /\ c # Ch.zero) \/ Len(stack.whole) > 0)
        THEN PushOk(FALSE, [stack EXCEPT !.whole = Append(@, c)])
        ELSE IF p = "IntoDecimal" /\ c = Ch.dot
        THEN PushOk(FALSE, [stack EXCEPT !.position = "Decimal"])
        ELSE IF p = "Whole" /\ c = Ch.dot /\ Len(stack.whole) > 0
        THEN PushOk(FALSE, [stack EXCEPT !.position = "Decimal"])
        ELSE IF p = "Decimal" /\ IsDigit10(c)
        THEN PushOk(FALSE, [stack EXCEPT !.decimal = Append(@, c)])
        ELSE IF p = "Decimal" /\ Len(stack.decimal) > 0 /\ IsExpChar(c)
        THEN PushOk(FALSE, [stack EXCEPT !.position = "Exponent"])
        ELSE IF p = "Whole" /\ Len(stack.whole) > 0 /\ IsExpChar(c)
        THEN PushOk(FALSE, [stack EXCEPT !.position = "Exponent"])
        ELSE IF /\ p = "Exponent"
                /\ (IsDigit10(c)
                    \/ ((c = Ch.plus \/ c = Ch.minus) /\ stack.exponent = <<>>))
        THEN PushOk(FALSE, [stack EXCEPT !.exponent = Append(@, c)])
        ELSE PushErr(c, stack)

\* PendingStack::push for NumberStack: the match arms in source order.
NumberStackPush(stack, c) ==
    LET p == stack.position
    IN  IF p = "Whole" /\ c = Ch.minus /\ stack.whole = <<>> /\ stack.positive
        THEN PushOk(FALSE, [stack EXCEPT !.positive = FALSE])
        ELSE IF p = "Whole" /\ c = Ch.zero /\ stack.whole = <<>>
        THEN PushOk(FALSE, [stack EXCEPT !.whole = Append(@, c),
                                         !.position = "IntoDecimal"])
        ELSE IF /\ p = "Whole" /\ IsDigit10(c)
                /\ ((stack.whole = <<>> /\ c # Ch.zero) \/ Len(stack.whole) > 0)
        THEN PushOk(FALSE, [stack EXCEPT !.whole = Append(@, c)])
        ELSE IF p = "IntoDecimal" /\ c = Ch.dot
        THEN PushOk(FALSE, [stack EXCEPT !.position = "Decimal"])
        ELSE IF p = "Whole" /\ c = Ch.dot /\ Len(stack.whole) > 0
        THEN PushOk(FALSE, [stack EXCEPT !.position = "Decimal"])
        ELSE IF p = "Decimal" /\ IsDigit10(c)
        THEN PushOk(FALSE, [stack EXCEPT !.decimal = Append(@, c)])
        ELSE IF p = "Decimal" /\ Len(stack.decimal) > 0 /\ IsExpChar(c)
        THEN PushOk(FALSE, [stack EXCEPT !.position = "Exponent"])
        ELSE IF p = "Whole" /\ Len(stack.whole) > 0 /\ IsExpChar(c)
        THEN PushOk(FALSE, [stack EXCEPT !.position = "Exponent"])
        ELSE IF /\ p = "Exponent"
                /\ (IsDigit10(c)
                    \/ ((c = Ch.plus \/ c = Ch.minus) /\ stack.exponent = <<>>))
        THEN PushOk(FALSE, [stack EXCEPT !.exponent = Append(@, c)])
        ELSE PushErr(c, stack)

\* ------------------------------------------------------------------------
\* ObjArrItem, ArrayStack, ObjectStack (stack/mod.rs, array.rs, object.rs)
\* ------------------------------------------------------------------------

Colon == [t |-> "Colon"]

Comma == [t |-> "Comma"]

Item(v) == [t |-> "Item", item |-> v]

Key(s) == [t |-> "Key", key |-> s]

ArrayStackNew == [kind |-> "Array", inner |-> <<>>]

ObjectStackNew == [kind |-> "Object", inner |-> <<>>]

\* CheckedStack::peek: the type of the last token, "None" if there is none
Peek(stack) ==
    IF stack.inner = <<>> THEN "None" ELSE stack.inner[Len(stack.inner)].t

\* Results of CheckedStack::push: Ok(()) with the new stack, or Err(())
StackOk(stack) == [ok |-> TRUE, stack |-> stack]

StackErr(stack) == [ok |-> FALSE, stack |-> stack]

\* A faulty ArrayStack::push: an Item is accepted after an Item too.
ArrayPushItemAfterItem(stack, item) ==
    IF item.t = "Item" /\ Peek(stack) \in {"Comma", "None", "Item"}
    THEN StackOk([stack EXCEPT !.inner = Append(@, item)])
    ELSE IF item.t = "Comma" /\ Peek(stack) = "Item"
    THEN StackOk([stack EXCEPT !.inner = Append(@, item)])
    ELSE StackErr(stack)

\* CheckedStack::push for ArrayStack
ArrayPush(stack, item) ==
    IF Peek(stack) \in {"Comma", "None"}
    THEN IF item.t = "Item"
         THEN StackOk([stack EXCEPT !.inner = Append(@, item)])
         ELSE StackErr(stack)
    ELSE IF Peek(stack) = "Item"
    THEN IF item.t = "Comma"
         THEN StackOk([stack EXCEPT !.inner = Append(@, item)])
         ELSE StackErr(stack)
    ELSE StackErr(stack)

\* A faulty ObjectStack::push: where a key is expected a Text item is
\* stored as the Item it came as.
ObjectPushKeepsItem(stack, item) ==
    IF Peek(stack) \in {"Comma", "None"}
    THEN IF item.t = "Key" \/ (item.t = "Item" /\ item.item.tag = "Text")
         THEN StackOk([stack EXCEPT !.inner = Append(@, item)])
         ELSE StackErr(stack)
    ELSE IF Peek(stack) = "Item"
    THEN IF item.t = "Comma"
         THEN StackOk([stack EXCEPT !.inner = Append(@, item)])
         ELSE StackErr(stack)
    ELSE IF Peek(stack) = "Colon"
    THEN IF item.t = "Item"
         THEN StackOk([stack EXCEPT !.inner = Append(@, item)])
         ELSE StackErr(stack)
    ELSE IF item.t = "Colon"
         THEN StackOk([stack EXCEPT !.inner = Append(@, item)])
         ELSE StackErr(stack)

\* CheckedStack::push for ObjectStack
ObjectPush(stack, item) ==
    IF Peek(stack) \in {"Comma", "None"}
    THEN IF item.t = "Key" \/ (item.t = "Item" /\ item.item.tag = "Text")
         THEN StackOk([stack EXCEPT !.inner =
                 Append(@, Key(IF item.t = "Key" THEN item.key
                               ELSE item.item.text))])
         ELSE StackErr(stack)
    ELSE IF Peek(stack) = "Item"
    THEN IF item.t = "Comma"
         THEN StackOk([stack EXCEPT !.inner = Append(@, item)])
         ELSE StackErr(stack)
    ELSE IF Peek(stack) = "Colon"
    THEN IF item.t = "Item"
         THEN StackOk([stack EXCEPT !.inner = Append(@, item)])
         ELSE StackErr(stack)
    ELSE IF item.t = "Colon"
         THEN StackOk([stack EXCEPT !.inner = Append(@, item)])
         ELSE StackErr(stack)

\* A faulty collection of an array's items: last token first.
RECURSIVE ItemsOfReversed(_)
ItemsOfReversed(inner) ==
    IF inner = <<>> THEN <<>>
    ELSE ItemsOfReversed(Tail(inner))
         \o (IF inner[1].t = "Item" THEN <<inner[1].item>> ELSE <<>>)

\* IntoJson for ArrayStack
RECURSIVE ItemsOf(_)
ItemsOf(inner) ==
    IF inner = <<>> THEN <<>>
    ELSE (IF inner[1].t = "Item" THEN <<inner[1].item>> ELSE <<>>)
         \o ItemsOf(Tail(inner))

\* A faulty ArrayStack::into_json: a last Comma is not refused.
ArrayIntoJsonLenient(stack) == Some(JArray(ItemsOf(stack.inner)))

\* A faulty ArrayStack::into_json: the first token is looked at, not the
\* last.
ArrayIntoJsonFirstToken(stack) ==
    IF stack.inner # <<>> /\ stack.inner[1].t = "Comma" THEN None
    ELSE Some(JArray(ItemsOf(stack.inner)))

ArrayIntoJson(stack) ==
    IF Peek(stack) = "Comma" THEN None
    ELSE Some(JArray(ItemsOf(stack.inner)))

\* shift_multi: the first count elements of v (all of v if it is shorter),
\* and what is left of v
ShiftMulti(v, count) ==
    LET n == IF Len(v) < count THEN Len(v) ELSE count
    IN  [ret |-> SubSeq(v, 1, n), rest |-> SubSeq(v, n + 1, Len(v))]

\* A faulty insert: a key already present keeps its value.
MapInsertKeepsFirst(dict, k, v) ==
    [x \in (DOMAIN dict) \cup {k} |-> IF x \in DOMAIN dict THEN dict[x] ELSE v]

\* HashMap::insert: a later insert of a key already present replaces it
MapInsert(dict, k, v) ==
    [x \in (DOMAIN dict) \cup {k} |-> IF x = k THEN v ELSE dict[x]]

\* A faulty loop of ObjectStack::into_json: the fourth token of a group is
\* not looked at.
RECURSIVE ObjectCollectLoose(_, _)
ObjectCollectLoose(inner, dict) ==
    IF Len(inner) = 0 THEN Some(JObject(dict))
    ELSE LET sm == ShiftMulti(inner, 4)
             s == sm.ret
         IN  IF /\ Len(s) \in {3, 4}
                /\ s[1].t = "Key" /\ s[2].t = "Colon" /\ s[3].t = "Item"
             THEN ObjectCollectLoose(sm.rest,
                                     MapInsert(dict, s[1].key, s[3].item))
             ELSE None

\* The loop of ObjectStack::into_json: groups of 4 tokens (the last of 3)
RECURSIVE ObjectCollect(_, _)
ObjectCollect(inner, dict) ==
    IF Len(inner) = 0 THEN Some(JObject(dict))
    ELSE LET sm == ShiftMulti(inner, 4)
             s == sm.ret
         IN  IF /\ Len(s) \in {3, 4}
                /\ s[1].t = "Key" /\ s[2].t = "Colon" /\ s[3].t = "Item"
                /\ (Len(s) = 4 => s[4].t = "Comma")
             THEN ObjectCollect(sm.rest, MapInsert(dict, s[1].key, s[3].item))
             ELSE None

\* IntoJson for ObjectStack
ObjectIntoJson(stack) ==
    IF Peek(stack) = "Comma" THEN None
    ELSE ObjectCollect(stack.inner, <<>>)

\* ObjArrStack::get_delimiter
GetDelimiter(stack, c) ==
    IF stack.kind = "Array"
    THEN IF c = Ch.comma THEN Some(Comma) ELSE None
    ELSE IF c = Ch.comma THEN Some(Comma)
         ELSE IF c = Ch.colon THEN Some(Colon)
         ELSE None

\* ObjArrStack::is_end_char
IsEndChar(stack, c) ==
    IF stack.kind = "Array" THEN c = Ch.rbracket ELSE c = Ch.rbrace

\* ObjArrStack::next_must_be_key
NextMustBeKey(stack) ==
    IF stack.kind = "Array" THEN FALSE
    ELSE Peek(stack) \in {"Comma", "None"}

\* Dynamic dispatch on Box<ObjArrStack>
ObjArrPush(stack, item) ==
    IF stack.kind = "Array" THEN ArrayPush(stack, item)
    ELSE ObjectPush(stack, item)

ObjArrIntoJson(stack) ==
    IF stack.kind = "Array" THEN ArrayIntoJson(stack)
    ELSE ObjectIntoJson(stack)

\* Dynamic dispatch on Box<SimpleStack>
SimplePush(stack, c) ==
    IF stack.kind = "Text" THEN TextStackPush(stack, c)
    ELSE StringMatcherPush(stack, c)

SimpleIntoJson(stack) ==
    IF stack.kind = "Text" THEN TextIntoJson(stack)
    ELSE IF stack.kind = "Bool" THEN BoolIntoJson(stack)
    ELSE NullIntoJson(stack)

\* ------------------------------------------------------------------------
\* JsonError and the results of json_parse (lib.rs)
\* ------------------------------------------------------------------------

Ok(v) == [kind |-> "Ok", value |-> v]

\* tok_err
TokErr(c, loc) ==
    [kind |-> "UnexpectedToken", character |-> c, location |-> loc]

UnexpectedEOF == [kind |-> "UnexpectedEOF"]

\* A failed unwrap(): the thread panics instead of returning.
Panic == [kind |-> "Panic"]

\* ------------------------------------------------------------------------
\* PendingItem (stack/mod.rs)
\* ------------------------------------------------------------------------

ObjArr(stack) == [tag |-> "ObjArr", stack |-> stack]

Simple(stack) == [tag |-> "Simple", stack |-> stack]

Number(stack) == [tag |-> "Number", stack |-> stack]

FinalizedJsonValue(v) == [tag |-> "Finalized", value |-> v]

\* ------------------------------------------------------------------------
\* json_parse_internal (lib.rs): the locals of one invocation, one loop
\* iteration, the code after the loop, and the whole function
\* ------------------------------------------------------------------------

\* Faulty locals at loop entry: offsets restart at 0 in every call, so a
\* recursive call reports offsets of the buffered text.
DriverNewRelative(pos) ==
    [processing |-> None, counter |-> StackCounterNew, error_ind |-> None,
     content_str |-> <<>>, next_must_be_quote |-> FALSE, pos |-> 0]

\* The locals at loop entry; pos is the offset the caller passes.
DriverNew(pos) ==
    [processing |-> None, counter |-> StackCounterNew, error_ind |-> None,
     content_str |-> <<>>, next_must_be_quote |-> FALSE, pos |-> pos]

\* An iteration either falls through to pos += 1 (ret = None) or returns
\* (ret = Some(result)); sub is the result of the recursive call it made,
\* if it made one.
Continue(d, sub) == [d |-> [d EXCEPT !.pos = @ + 1], ret |-> None, sub |-> sub]

Return(d, result, sub) == [d |-> d, ret |-> Some(result), sub |-> sub]

\* A faulty map_err on a recursive call: every error passes through.
AdaptSubErrorVerbatim(e, c, pos) == e

\* map_err on a recursive call: UnexpectedEOF becomes tok_err(c, pos),
\* every other error passes through.
AdaptSubError(e, c, pos) ==
    IF e = UnexpectedEOF THEN TokErr(c, pos) ELSE e

\* A faulty finalization of a number: at the end of the input the missing
\* next character is reported as an unexpected NUL.
FinalizeNumberNoEof(d, peek, json) ==
    IF json = None
    THEN Return(d, IF peek # None THEN TokErr(peek[1], d.pos + 1)
                   ELSE TokErr(0, d.pos + 1), None)
    ELSE Continue([d EXCEPT !.processing = Some(FinalizedJsonValue(json[1]))],
                  None)

\* The number arms' tail: keep the number pending if the peeked character
\* can be pushed, else finalize it now.
FinalizeNumber(d, peek, json) ==
    IF json = None
    THEN Return(d, IF peek # None THEN TokErr(peek[1], d.pos + 1)
                   ELSE UnexpectedEOF, None)
    ELSE Continue([d EXCEPT !.processing = Some(FinalizedJsonValue(json[1]))],
                  None)

\* A faulty lookahead: the number stays pending whenever a next character
\* exists, whether or not can_push accepts it.
NumberLookaheadGreedy(d, stack, peek) ==
    IF peek # None
    THEN Continue([d EXCEPT !.processing = Some(Number(stack))], None)
    ELSE FinalizeNumber(d, peek, NumberIntoJson(stack))

NumberLookahead(d, stack, peek) ==
    IF peek # None /\ NumberCanPush(stack, peek[1])
    THEN Continue([d EXCEPT !.processing = Some(Number(stack))], None)
    ELSE FinalizeNumber(d, peek, NumberIntoJson(stack))

\* The number start of the arm for no pending item: r is what push
\* returned, and the code unwraps it.
StartNumber(d, r, peek) ==
    IF ~r.ok THEN Return(d, Panic, None)
    ELSE NumberLookahead(d, r.stack, peek)

\* The arm for no pending item: the character starts a value.
StartValue(d, c, peek) ==
    IF c = Ch.quote
    THEN Continue([d EXCEPT !.processing = Some(Simple(TextStackNew))], None)
    ELSE IF c = Ch.lbracket
    THEN Continue([d EXCEPT !.processing = Some(ObjArr(ArrayStackNew))], None)
    ELSE IF c = Ch.lbrace
    THEN Continue([d EXCEPT !.processing = Some(ObjArr(ObjectStackNew))], None)
    ELSE IF c = Ch.t \/ c = Ch.f
    THEN Continue([d EXCEPT !.processing = Some(Simple(BoolStackInit(c)))], None)
    ELSE IF c = Ch.n
    THEN Continue([d EXCEPT !.processing = Some(Simple(NullStackInit))], None)
    ELSE IF c = Ch.minus \/ IsDigit10(c)
    THEN StartNumber(d, NumberStackPush(NumberStackNew, c), peek)
    ELSE IF IsWhitespace(c) THEN Continue(d, None)
    ELSE Return(d, TokErr(c, d.pos), None)

\* The arm for a pending Simple automaton.
FinalizeSimple(d, json) ==
    IF json = None THEN Return(d, Panic, None)
    ELSE Continue([d EXCEPT !.processing = Some(FinalizedJsonValue(json[1]))],
                  None)

\* r is what stack.push(c) returned
SimplePushed(d, r) ==
    IF ~r.ok THEN Return(d, TokErr(r.err, d.pos), None)
    ELSE IF r.done THEN FinalizeSimple(d, SimpleIntoJson(r.stack))
    ELSE Continue([d EXCEPT !.processing = Some(Simple(r.stack))], None)

SimpleArm(d, stack, c) == SimplePushed(d, SimplePush(stack, c))

\* The arm for a pending Number.
NumberPushed(d, r, c, peek) ==
    IF ~r.ok THEN Return(d, TokErr(c, d.pos), None)
    ELSE NumberLookahead(d, r.stack, peek)

NumberArm(d, stack, c, peek) ==
    NumberPushed(d, NumberStackPush(stack, c), c, peek)

\* A faulty arm for a finalized value: whitespace after it is refused too.
FinalizedArmStrict(d, last, c) == Return(d, TokErr(c, d.pos), None)

\* A faulty arm for a finalized value: a further non-whitespace character
\* drops the value and the driver waits for a new one.
FinalizedArmRestart(d, last, c) ==
    IF ~IsWhitespace(c) THEN Continue(d, None)
    ELSE Continue([d EXCEPT !.processing = Some(last)], None)

\* The arm for a finalized value.
FinalizedArm(d, last, c) ==
    IF ~IsWhitespace(c) THEN Return(d, TokErr(c, d.pos), None)
    ELSE Continue([d EXCEPT !.processing = Some(last)], None)

\* A faulty delimiter test: the nesting level is not looked at.
IsStructuralDelimiterAnyLevel(d, stack, c) ==
    GetDelimiter(stack, c) # None /\ ~d.counter.in_string

\* Whether c is structural for the pending accumulator: a delimiter at
\* level 1, or the end character at level 0, outside a string.
IsStructuralDelimiter(d, stack, c) ==
    GetDelimiter(stack, c) # None /\ Level(d.counter) = 1 /\ ~d.counter.in_string

IsStructuralEnd(d, stack, c) ==
    IsEndChar(stack, c) /\ Level(d.counter) = 0 /\ ~d.counter.in_string

\* The ObjArr arm, first branch: a structural delimiter.  error_ind is
\* taken before anything can fail.  sub is the result of the recursive call
\* json_parse_internal(&content_str, error_ind), looked at only where the
\* code makes that call.
DelimiterBranch(d, stack, c, sub) ==
    LET taken == [d EXCEPT !.error_ind = None]
        p1 == ObjArrPush(stack, Item(sub.value))
        p2 == ObjArrPush(p1.stack, GetDelimiter(stack, c)[1])
    IN  IF d.error_ind = None \/ ~TrimNonEmpty(d.content_str)
        THEN Return(taken, TokErr(c, d.pos), None)
        ELSE IF sub.kind # "Ok"
        THEN Return(taken, AdaptSubError(sub, c, d.pos), Some(sub))
        ELSE IF ~p1.ok THEN Return(taken, TokErr(c, d.pos), Some(sub))
        ELSE IF ~p2.ok THEN Return(taken, TokErr(c, d.pos), Some(sub))
        ELSE Continue([taken EXCEPT !.processing = Some(ObjArr(p2.stack)),
                                    !.content_str = <<>>], Some(sub))

\* A faulty second branch: a buffer of whitespace only is parsed as a
\* value, as the code after the loop does.
EndCharBranchParseBlank(d, stack, c, sub) ==
    LET taken == [d EXCEPT !.error_ind = None]
        parse == d.error_ind # None /\ Len(d.content_str) > 0
        p1 == IF parse THEN ObjArrPush(stack, Item(sub.value)) ELSE StackOk(stack)
        json == ObjArrIntoJson(p1.stack)
        made == IF parse THEN Some(sub) ELSE None
    IN  IF parse /\ sub.kind # "Ok"
        THEN Return(taken, AdaptSubError(sub, c, d.pos), made)
        ELSE IF ~p1.ok THEN Return(taken, TokErr(c, d.pos), made)
        ELSE IF json = None THEN Return(taken, TokErr(c, d.pos), made)
        ELSE Continue([taken EXCEPT
                          !.processing = Some(FinalizedJsonValue(json[1])),
                          !.content_str = <<>>], made)

\* The ObjArr arm, second branch: the structural end character.
EndCharBranch(d, stack, c, sub) ==
    LET taken == [d EXCEPT !.error_ind = None]
        parse == d.error_ind # None /\ TrimNonEmpty(d.content_str)
        p1 == IF parse THEN ObjArrPush(stack, Item(sub.value)) ELSE StackOk(stack)
        json == ObjArrIntoJson(p1.stack)
        made == IF parse THEN Some(sub) ELSE None
    IN  IF parse /\ sub.kind # "Ok"
        THEN Return(taken, AdaptSubError(sub, c, d.pos), made)
        ELSE IF ~p1.ok THEN Return(taken, TokErr(c, d.pos), made)
        ELSE IF json = None THEN Return(taken, TokErr(c, d.pos), made)
        ELSE Continue([taken EXCEPT
                          !.processing = Some(FinalizedJsonValue(json[1])),
                          !.content_str = <<>>], made)

\* A faulty last branch: the character is buffered without the check that
\* an object's key starts with '"'.
BufferBranchNoKeyCheck(d, stack, c) ==
    LET first == d.error_ind = None
        ind == IF first THEN Some(d.pos) ELSE d.error_ind
    IN  Continue([d EXCEPT !.error_ind = ind,
                           !.content_str = Append(@, c),
                           !.next_must_be_quote = FALSE,
                           !.processing = Some(ObjArr(stack))], None)

\* A faulty last branch: the anchor is set anew at every buffered character.
BufferBranchMovingAnchor(d, stack, c) ==
    LET first == d.error_ind = None
        nmq == IF first THEN NextMustBeKey(stack) ELSE d.next_must_be_quote
        marked == [d EXCEPT !.error_ind = Some(d.pos), !.next_must_be_quote = nmq]
    IN  IF nmq /\ ~IsWhitespace(c) /\ c # Ch.quote
        THEN Return(marked, TokErr(c, d.pos), None)
        ELSE Continue([marked EXCEPT
                          !.content_str = Append(@, c),
                          !.next_must_be_quote = nmq /\ IsWhitespace(c),
                          !.processing = Some(ObjArr(stack))], None)

\* The ObjArr arm, last branch: the character is buffered.
BufferBranch(d, stack, c) ==
    LET first == d.error_ind = None
        ind == IF first THEN Some(d.pos) ELSE d.error_ind
        nmq == IF first THEN NextMustBeKey(stack) ELSE d.next_must_be_quote
        marked == [d EXCEPT !.error_ind = ind, !.next_must_be_quote = nmq]
    IN  IF nmq /\ ~IsWhitespace(c) /\ c # Ch.quote
        THEN Return(marked, TokErr(c, d.pos), None)
        ELSE Continue([marked EXCEPT
                          !.content_str = Append(@, c),
                          !.next_must_be_quote = nmq /\ IsWhitespace(c),
                          !.processing = Some(ObjArr(stack))], None)

\* The arm for a pending accumulator.
ObjArrArm(d, stack, c, sub) ==
    IF IsStructuralDelimiter(d, stack, c) THEN DelimiterBranch(d, stack, c, sub)
    ELSE IF IsStructuralEnd(d, stack, c) THEN EndCharBranch(d, stack, c, sub)
    ELSE BufferBranch(d, stack, c)

\* One iteration of the while loop on character c, peek being chars.peek().
\* counter.push comes first; processing.take() leaves processing None for
\* the arms that return without assigning it.
LoopIteration(d0, c, peek, sub) ==
    LET cp == StackCounterPush(d0.counter, c)
        last == d0.processing
        d == [d0 EXCEPT !.counter = cp.counter, !.processing = None]
    IN  IF ~cp.ok THEN Return([d0 EXCEPT !.counter = cp.counter],
                              TokErr(c, d0.pos), None)
        ELSE IF last = None THEN StartValue(d, c, peek)
        ELSE IF last[1].tag = "Simple" THEN SimpleArm(d, last[1].stack, c)
        ELSE IF last[1].tag = "ObjArr" THEN ObjArrArm(d, last[1].stack, c, sub)
        ELSE IF last[1].tag = "Number" THEN NumberArm(d, last[1].stack, c, peek)
        ELSE FinalizedArm(d, last[1], c)

\* A faulty tail: the buffered contents are not looked at, so every
\* premature end is UnexpectedEOF.
EndOfInputBlind(d, sub) ==
    IF d.processing # None /\ d.processing[1].tag = "Finalized"
    THEN [ret |-> Ok(d.processing[1].value), sub |-> None]
    ELSE [ret |-> UnexpectedEOF, sub |-> None]

\* The code after the loop.  Result: [ret, sub].
EndOfInput(d, sub) ==
    IF d.processing # None /\ d.processing[1].tag = "Finalized"
    THEN [ret |-> Ok(d.processing[1].value), sub |-> None]
    ELSE IF d.error_ind # None /\ Len(d.content_str) > 0
    THEN [ret |-> IF sub.kind # "Ok" THEN sub ELSE UnexpectedEOF,
          sub |-> Some(sub)]
    ELSE [ret |-> UnexpectedEOF, sub |-> None]

\* chars.peek() when the character at index i has just been taken
PeekAt(str, i) == IF i < Len(str) THEN Some(str[i + 1]) ELSE None

RECURSIVE json_parse_internal(_, _)

\* The recursive call both the loop and the code after it make on the
\* buffered contents: json_parse_internal(&content_str, error_ind)
Recurse(d) == json_parse_internal(d.content_str, d.error_ind[1])

\* The loop from the i-th character of str on, then the code after it
RECURSIVE RunLoop(_, _, _)
RECURSIVE AfterIteration(_, _, _)
RunLoop(str, i, d) ==
    IF i > Len(str) THEN EndOfInput(d, Recurse(d)).ret
    ELSE AfterIteration(str, i,
                        LoopIteration(d, str[i], PeekAt(str, i), Recurse(d)))

\* r is the outcome of the iteration on the i-th character: return, or go
\* on with the next character
AfterIteration(str, i, r) ==
    IF r.ret # None THEN r.ret[1] ELSE RunLoop(str, i + 1, r.d)

json_parse_internal(json_str, pos) == RunLoop(json_str, 1, DriverNew(pos))

json_parse(json_str) == json_parse_internal(json_str, 0)

\* ------------------------------------------------------------------------
\* The serializer (lib.rs): unicode_escape, escape_str, to_string
\* ------------------------------------------------------------------------

\* format!("{:x}", n): lowercase hexadecimal, no padding
RECURSIVE LowerHex(_)
LowerHex(n) ==
    LET d == n % 16
        ch == IF d < 10 THEN 48 + d ELSE 87 + d
    IN  IF n < 16 THEN <<ch>> ELSE Append(LowerHex(n \div 16), ch)

\* format!("{:0>4}", s): s right-aligned in a field of 4, filled with '0'
RECURSIVE PadLeft4(_)
PadLeft4(s) == IF Len(s) >= 4 THEN s ELSE PadLeft4(<<Ch.zero>> \o s)

\* A faulty unicode_escape: the hex digits are not padded.
UnicodeEscapeUnpadded(c) == <<Ch.backslash, Ch.u>> \o LowerHex(c)

\* unicode_escape
UnicodeEscape(c) == <<Ch.backslash, Ch.u>> \o PadLeft4(LowerHex(c))

\* The closure of escape_str: the match arms in source order
EscapeChar(c) ==
    IF c = Ch.newline THEN <<Ch.backslash, Ch.n>>
    ELSE IF c = Ch.tab THEN <<Ch.backslash, Ch.t>>
    ELSE IF c = Ch.cr THEN <<Ch.backslash, Ch.r>>
    ELSE IF c = Ch.backspace THEN <<Ch.backslash, Ch.b>>
    ELSE IF c = Ch.formfeed THEN <<Ch.backslash, Ch.f>>
    ELSE IF c = Ch.backslash THEN <<Ch.backslash, Ch.backslash>>
    ELSE IF c = Ch.quote THEN <<Ch.backslash, Ch.quote>>
    ELSE IF c \in 0..31 THEN UnicodeEscape(c)
    ELSE <<c>>

RECURSIVE EscapeChars(_)
EscapeChars(text) ==
    IF text = <<>> THEN <<>>
    ELSE EscapeChar(text[1]) \o EscapeChars(Tail(text))

\* escape_str
EscapeStr(text) == <<Ch.quote>> \o EscapeChars(text) \o <<Ch.quote>>

Zeros(n) == [k \in 1..n |-> Ch.zero]

\* <f64 as Display>::fmt: the shortest digits that read back as the same
\* double, written positionally (never with an exponent)
F64ToString(x) ==
    LET n == Len(x.digits)
        k == 0 - x.exp
        abs == IF x.inf THEN <<Ch.i, Ch.n, Ch.f>>
               ELSE IF x.digits = <<>> THEN <<Ch.zero>>
               ELSE IF x.exp >= 0 THEN x.digits \o Zeros(x.exp)
               ELSE IF n > k
               THEN SubSeq(x.digits, 1, n - k) \o <<Ch.dot>>
                    \o SubSeq(x.digits, n - k + 1, n)
               ELSE <<Ch.zero, Ch.dot>> \o Zeros(k - n) \o x.digits
    IN  (IF x.neg THEN <<Ch.minus>> ELSE <<>>) \o abs

\* A faulty join: the separator is ", ".
RECURSIVE JoinChoicesSpaced(_)
JoinChoicesSpaced(parts) ==
    IF parts = <<>> THEN {<<>>}
    ELSE IF Len(parts) = 1 THEN parts[1]
    ELSE { a \o <<Ch.comma, Ch.space>> \o b :
             a \in parts[1], b \in JoinChoicesSpaced(Tail(parts)) }

\* join(","): one text chosen from each set of parts, in order
RECURSIVE JoinChoices(_)
JoinChoices(parts) ==
    IF parts = <<>> THEN {<<>>}
    ELSE IF Len(parts) = 1 THEN parts[1]
    ELSE { a \o <<Ch.comma>> \o b : a \in parts[1], b \in JoinChoices(Tail(parts)) }

\* The orders in which HashMap::iter may visit the keys
KeyOrders(keys) ==
    { p \in [1..Cardinality(keys) -> keys] :
        \A x, y \in 1..Cardinality(keys) : x # y => p[x] # p[y] }

\* ToString for JsonValue: the set of texts to_string may return; an
\* Object's members come in the unspecified order of HashMap::iter.
RECURSIVE ToStrings(_)
ToStrings(v) ==
    IF v.tag = "Text" THEN {EscapeStr(v.text)}
    ELSE IF v.tag = "Null" THEN {<<Ch.n, Ch.u, Ch.l, Ch.l>>}
    ELSE IF v.tag = "Boolean"
    THEN {IF v.bool THEN <<Ch.t, Ch.r, Ch.u, Ch.e>>
          ELSE <<Ch.f, Ch.a, Ch.l, Ch.s, Ch.e>>}
    ELSE IF v.tag = "Number" THEN {F64ToString(v.num)}
    ELSE IF v.tag = "Array"
    THEN { <<Ch.lbracket>> \o body \o <<Ch.rbracket>> :
             body \in JoinChoices([k \in 1..Len(v.items) |-> ToStrings(v.items[k])]) }
    ELSE UNION { { <<Ch.lbrace>> \o body \o <<Ch.rbrace>> :
                     body \in JoinChoices(
                        [k \in 1..Len(order) |->
                            { EscapeStr(order[k]) \o <<Ch.colon>> \o text :
                                text \in ToStrings(v.map[order[k]]) }]) } :
                 order \in KeyOrders(DOMAIN v.map) }

\* ------------------------------------------------------------------------
\* The inputs of the model
\* ------------------------------------------------------------------------

\* Texts of number characters are enumerated up to this length.
MaxNumLen == 5

\* Arrays hold at most this many elements.
MaxItems == 2

\* Text values hold at most this many characters.
MaxTextLen == 1

\* All sequences over alphabet of length at most n
Strings(alphabet, n) == UNION { [1..k -> alphabet] : k \in 0..n }

NumberAlphabet == {Ch.zero, Ch.nine, Ch.minus, Ch.plus, Ch.dot, Ch.e, Ch.E}

NumberTexts == Strings(NumberAlphabet, MaxNumLen)

F64One == [neg |-> FALSE, digits |-> <<Ch.one>>, exp |-> 0, inf |-> FALSE]

Scalars == {JNumber(F64One), JText(<<>>)}

Literals == {JBoolean(TRUE), JBoolean(FALSE), JNull}

Elements == Scalars \cup {JArray(<<>>), JObject(<<>>)}

Keys == {<<>>, <<Ch.a>>}

Arrays == { JArray(items) : items \in Strings(Elements, MaxItems) }

Objects ==
    { JObject(map) : map \in UNION { [ks -> Elements] : ks \in SUBSET Keys } }

\* The number of elements or members of a container
Size(v) == IF v.tag = "Array" THEN Len(v.items) ELSE Cardinality(DOMAIN v.map)

\* Scalars, containers, and each container with room left as the only
\* element or member of another
Documents ==
    LET flat == Arrays \cup Objects
        inner == { x \in flat : Size(x) < MaxItems }
    IN  Scalars \cup Literals \cup flat
        \cup { JArray(<<x>>) : x \in inner }
        \cup { JObject([k \in {<<>>} |-> x]) : x \in inner }

DocumentTexts == UNION { ToStrings(v) : v \in Documents }

\* Empty and whitespace-only texts
BlankTexts == Strings({Ch.space, Ch.newline}, 2)

\* The characters an edit may insert singly
EditAlphabet ==
    {Ch.lbracket, Ch.rbracket, Ch.lbrace, Ch.rbrace, Ch.comma, Ch.colon,
     Ch.quote, Ch.backslash, Ch.space, Ch.newline, Ch.zero, Ch.one, Ch.minus,
     Ch.a}

\* What an edit may insert: one character, or one of three pairs
EditTokens ==
    { <<c>> : c \in EditAlphabet }
    \cup { <<Ch.comma, Ch.space>>, <<Ch.minus, Ch.zero>>, <<Ch.space, Ch.newline>> }

\* text with s inserted after its first k characters
InsertAt(text, k, s) == SubSeq(text, 1, k) \o s \o SubSeq(text, k + 1, Len(text))

DeleteAt(text, k) == SubSeq(text, 1, k - 1) \o SubSeq(text, k + 1, Len(text))

\* Every document text, and every text one insertion or one deletion away
EditedTexts ==
    DocumentTexts
    \cup { InsertAt(t[1], t[2], s) :
             t \in UNION { {<<x, k>> : k \in 0..Len(x)} : x \in DocumentTexts },
             s \in EditTokens }
    \cup UNION { {DeleteAt(x, k) : k \in 1..Len(x)} : x \in DocumentTexts }

\* The characters of the Text values that are serialized
TextAlphabet ==
    {Ch.quote, Ch.backslash, Ch.newline, Ch.tab, Ch.cr, Ch.backspace,
     Ch.formfeed, Ch.soh, Ch.us, Ch.del, Ch.a, Ch.u, Ch.space, Ch.comma,
     Ch.rbracket}

\* Texts of two characters that are escaped in different ways
TextPairs == [1..2 -> {Ch.newline, Ch.us, Ch.quote, Ch.a}]

\* The values that are serialized and parsed back
RoundTripValues ==
    Documents
    \cup { JText(s) : s \in Strings(TextAlphabet, MaxTextLen) }
    \cup { JText(s) : s \in TextPairs }
    \cup { JNumber(MkF64(neg, ds, e)) :
             neg \in BOOLEAN,
             ds \in {<<Ch.zero>>, <<Ch.one>>, <<Ch.one, Ch.nine>>, <<Ch.nine, Ch.zero, Ch.one>>},
             e \in {-4, -2, -1, 0, 1, 3} }
    \cup { JArray(<<JText(<<c>>)>>) : c \in TextAlphabet }
    \cup { JObject([k \in {<<c>>} |-> JText(<<c>>)]) : c \in TextAlphabet }

\* ------------------------------------------------------------------------
\* The state machine: one json_parse call at a time, run by loop iteration
\* ------------------------------------------------------------------------

VARIABLES
    input,              \* json_str of the outermost call
    consumed,           \* how many characters chars.next() has yielded
    processing,         \* the locals of the outermost json_parse_internal
    counter,
    error_ind,
    content_str,
    next_must_be_quote,
    pos,
    result,             \* None while the call runs, then Some(what it returns)
    sub,                \* what the recursive call of the last step returned
    phase,              \* "parse": input is a given text;
                        \* "reparse": input is to_string of the value parsed;
                        \* "roundtrip": input is to_string of a given value;
                        \* "prefix": input is a proper prefix of a text
                        \* that was accepted
    value               \* Some(the value input was serialized from), or None

\* Calls made concurrently: threads[t] holds the text thread t parses, the
\* stack frames of its json_parse_internal invocations, innermost last, and
\* what its json_parse call returned
VARIABLES threads

call_vars == <<input, consumed, processing, counter, error_ind, content_str,
               next_must_be_quote, pos, result, sub, phase, value>>

thread_vars == <<threads>>

\* The accessors: json is the value a caller holds, got the last accessor
\* call made on it (its arguments, what it returned, the value before it
\* and what the caller wrote through a mutable reference it returned)
VARIABLES json, got

access_vars == <<json, got>>

\* A StackCounter on its own: tracker is the counter, fed the characters
\* pushed to it so far, pushed the last push (its character, whether it
\* returned Ok, and the counter before it)
VARIABLES tracker, fed, pushed

tracker_vars == <<tracker, fed, pushed>>

\* An accumulator on its own: accumulator is the ArrayStack or ObjectStack,
\* origin tells whether it was made by new() or written as a struct literal
\* with tokens in it, offered is the last push (its token, whether it
\* returned Ok, and the accumulator before it), finalized what into_json
\* returned once it has consumed the accumulator
VARIABLES accumulator, origin, offered, finalized

stack_vars == <<accumulator, origin, offered, finalized>>

\* A scalar automaton on its own: automaton is the TextStack, BoolStack,
\* NullStack or NumberStack, species its type, answer the last push (its
\* character, what it returned, and the automaton before it), pushes the
\* number of pushes made, completion whether some push returned Ok(true),
\* converted what into_json returned once it has been called.  companion
\* is a StackCounter that was fed the opening quote of a text and is fed
\* every character the TextStack is, as the loop of json_parse_internal
\* does, for as long as the TextStack accepts them: the counter, what its
\* last push returned and the bracket stack it started with
VARIABLES automaton, species, answer, pushes, completion, converted,
          companion

scalar_vars ==
    <<automaton, species, answer, pushes, completion, converted, companion>>

vars == <<call_vars, thread_vars, access_vars, tracker_vars, stack_vars,
          scalar_vars>>

\* The locals as one record, for the operators above
Driver ==
    [processing |-> processing, counter |-> counter, error_ind |-> error_ind,
     content_str |-> content_str, next_must_be_quote |-> next_must_be_quote,
     pos |-> pos]

\* json_parse(text) is entered: json_parse_internal(text, 0) up to the loop
Enter(text) ==
    LET d == DriverNew(0)
    IN  /\ input = text
        /\ consumed = 0
        /\ processing = d.processing
        /\ counter = d.counter
        /\ error_ind = d.error_ind
        /\ content_str = d.content_str
        /\ next_must_be_quote = d.next_must_be_quote
        /\ pos = d.pos
        /\ result = None
        /\ sub = None

InitParse ==
    /\ phase = "parse"
    /\ value = None
    /\ \/ \E text \in NumberTexts : Enter(text)
       \/ \E text \in EditedTexts : Enter(text)
       \/ \E text \in BlankTexts : Enter(text)

InitRoundTrip ==
    /\ phase = "roundtrip"
    /\ \E v \in RoundTripValues :
          /\ value = Some(v)
          /\ \E text \in ToStrings(v) : Enter(text)

\* No concurrent calls are made
NoThreads == threads = <<>>

\* No accessor is called
NoAccess == json = JNull /\ got = None

\* No StackCounter is used on its own
NoTracker == tracker = StackCounterNew /\ fed = <<>> /\ pushed = None

\* No accumulator is used on its own
NoStack ==
    /\ accumulator = ArrayStackNew
    /\ origin = "new"
    /\ offered = None
    /\ finalized = None

\* No scalar automaton is used on its own
NoScalar ==
    /\ automaton = TextStackNew
    /\ species = "Text"
    /\ answer = None
    /\ pushes = 0
    /\ completion = FALSE
    /\ converted = None
    /\ companion = None

Init ==
    /\ InitParse \/ InitRoundTrip
    /\ NoThreads /\ NoAccess /\ NoTracker /\ NoStack /\ NoScalar

SetDriver(d) ==
    /\ processing' = d.processing
    /\ counter' = d.counter
    /\ error_ind' = d.error_ind
    /\ content_str' = d.content_str
    /\ next_must_be_quote' = d.next_must_be_quote
    /\ pos' = d.pos

\* The locals, the return value and the recursive call's result after an
\* iteration whose outcome is r
Iterated(r) ==
    /\ SetDriver(r.d)
    /\ result' = r.ret
    /\ sub' = r.sub

\* The return value after the code past the loop, whose outcome is r
Finished(r) ==
    /\ result' = Some(r.ret)
    /\ sub' = r.sub

\* One iteration of the while loop of the outermost call
Iterate ==
    /\ result = None
    /\ consumed < Len(input)
    /\ Iterated(LoopIteration(Driver, input[consumed + 1],
                               PeekAt(input, consumed + 1), Recurse(Driver)))
    /\ consumed' = consumed + 1
    /\ UNCHANGED <<input, phase, value>>
    /\ UNCHANGED <<thread_vars, access_vars, tracker_vars, stack_vars,
                   scalar_vars>>

\* The iterator is exhausted: the code after the loop
Finish ==
    /\ result = None
    /\ consumed = Len(input)
    /\ Finished(EndOfInput(Driver, Recurse(Driver)))
    /\ UNCHANGED <<input, consumed, processing, counter, error_ind,
                   content_str, next_must_be_quote, pos, phase, value>>
    /\ UNCHANGED <<thread_vars, access_vars, tracker_vars, stack_vars,
                   scalar_vars>>

\* The caller serializes the value a text parsed to and parses that text
Reserialize ==
    /\ phase = "parse"
    /\ result # None
    /\ result[1].kind = "Ok"
    /\ phase' = "reparse"
    /\ value' = Some(result[1].value)
    /\ \E text \in ToStrings(result[1].value) :
          LET d == DriverNew(0)
          IN  /\ input' = text
              /\ consumed' = 0
              /\ SetDriver(d)
              /\ result' = None
              /\ sub' = None
    /\ UNCHANGED <<thread_vars, access_vars, tracker_vars, stack_vars,
                   scalar_vars>>

Next == Iterate \/ Finish \/ Reserialize

Spec == Init /\ [][Next]_vars

\* ------------------------------------------------------------------------
\* Concurrent calls: every thread runs its own json_parse call, one loop
\* iteration, recursive call or return at a time, interleaved with the
\* others.  The function has no state but its locals and arguments.
\* ------------------------------------------------------------------------

\* How many threads call json_parse at once
NThreads == 2

Threads == 1..NThreads

\* The texts the threads parse: "[1]", "[[1]]", "{"a":1}", "[01]", "[1",
\* "[1,]" and "1 "
ThreadInputs ==
    { <<Ch.lbracket, Ch.one, Ch.rbracket>>,
      <<Ch.lbracket, Ch.lbracket, Ch.one, Ch.rbracket, Ch.rbracket>>,
      <<Ch.lbrace, Ch.quote, Ch.a, Ch.quote, Ch.colon, Ch.one, Ch.rbrace>>,
      <<Ch.lbracket, Ch.zero, Ch.one, Ch.rbracket>>,
      <<Ch.lbracket, Ch.one>>,
      <<Ch.lbracket, Ch.one, Ch.comma, Ch.rbracket>>,
      <<Ch.one, Ch.space>> }

\* The frame of one json_parse_internal invocation: its argument, how far
\* its iterator is, its locals, and the result of the recursive call it
\* made in the iteration under way, once that call has returned
NewFrame(str, offset) ==
    [str |-> str, consumed |-> 0, d |-> DriverNew(offset), sub |-> None]

\* The code after the loop, as the outcome of a last iteration
AtEnd(f, r) == [d |-> f.d, ret |-> Some(r.ret), sub |-> r.sub]

\* What the invocation does next, given that a recursive call it makes
\* returns s: an iteration on the next character, or the code after the
\* loop
OutcomeWith(f, s) ==
    IF f.consumed < Len(f.str)
    THEN LoopIteration(f.d, f.str[f.consumed + 1],
                       PeekAt(f.str, f.consumed + 1), s)
    ELSE AtEnd(f, EndOfInput(f.d, s))

\* The invocation is about to call json_parse_internal recursively
MakesCall(f) == f.sub = None /\ OutcomeWith(f, UnexpectedEOF).sub # None

\* What the invocation does next, its recursive call having returned if it
\* makes one
Outcome(f) ==
    OutcomeWith(f, IF f.sub = None THEN UnexpectedEOF ELSE f.sub[1])

\* Faulty locals: every thread works on the frames of thread 1, as if the
\* locals were statics.
LocalsShared(ts, t) == ts[1].frames

\* The frames thread t works on: its own
Locals(ts, t) == ts[t].frames

Top(frames) == frames[Len(frames)]

Below(frames) == SubSeq(frames, 1, Len(frames) - 1)

\* Thread t is inside its call and its innermost invocation is ready
Running(t) == threads[t].result = None /\ Locals(threads, t) # <<>>

\* The innermost invocation returns r to its caller: to the invocation
\* below, which is waiting in an iteration, or out of json_parse
ReturnTo(frames, r) ==
    IF Len(frames) = 1 THEN <<>>
    ELSE LET caller == Below(frames)
         IN  [caller EXCEPT ![Len(caller)].sub = Some(r)]

\* The innermost invocation of thread t calls itself on its buffer
ThreadCall(t) ==
    /\ Running(t)
    /\ MakesCall(Top(Locals(threads, t)))
    /\ LET frames == Locals(threads, t)
            d == Top(frames).d
        IN  threads' = [threads EXCEPT ![t].frames =
                Append(frames, NewFrame(d.content_str, d.error_ind[1]))]
    /\ UNCHANGED <<call_vars, access_vars, tracker_vars, stack_vars,
                   scalar_vars>>

\* A faulty loop: an iteration that ends without a return does not advance
\* the iterator, so the same character is taken again.
ThreadIterateStalled(t) ==
    /\ Running(t)
    /\ ~MakesCall(Top(Locals(threads, t)))
    /\ Outcome(Top(Locals(threads, t))).ret = None
    /\ LET frames == Locals(threads, t)
            f == Top(frames)
        IN  threads' = [threads EXCEPT ![t].frames =
                Append(Below(frames),
                       [f EXCEPT !.d = Outcome(f).d, !.sub = None])]
    /\ UNCHANGED <<call_vars, access_vars, tracker_vars, stack_vars,
                   scalar_vars>>

\* The innermost invocation of thread t finishes a loop iteration and goes
\* on to the next
ThreadIterate(t) ==
    /\ Running(t)
    /\ ~MakesCall(Top(Locals(threads, t)))
    /\ Outcome(Top(Locals(threads, t))).ret = None
    /\ LET frames == Locals(threads, t)
            f == Top(frames)
        IN  threads' = [threads EXCEPT ![t].frames =
                Append(Below(frames),
                       [f EXCEPT !.d = Outcome(f).d, !.consumed = @ + 1,
                                 !.sub = None])]
    /\ UNCHANGED <<call_vars, access_vars, tracker_vars, stack_vars,
                   scalar_vars>>

\* The innermost invocation of thread t returns, from an iteration or from
\* the code after the loop
ThreadReturn(t) ==
    /\ Running(t)
    /\ ~MakesCall(Top(Locals(threads, t)))
    /\ Outcome(Top(Locals(threads, t))).ret # None
    /\ LET frames == Locals(threads, t)
            r == Outcome(Top(frames)).ret[1]
        IN  threads' = [threads EXCEPT
                ![t].frames = ReturnTo(frames, r),
                ![t].result = IF Len(frames) = 1 THEN Some(r) ELSE None]
    /\ UNCHANGED <<call_vars, access_vars, tracker_vars, stack_vars,
                   scalar_vars>>

\* No single call is followed
NoCall == phase = "none" /\ value = None /\ Enter(<<>>)

InitThreads ==
    /\ NoCall
    /\ NoAccess
    /\ NoTracker
    /\ NoStack
    /\ NoScalar
    /\ threads \in [Threads ->
          { [input |-> text, frames |-> <<NewFrame(text, 0)>>, result |-> None] :
              text \in ThreadInputs }]

NextThreads ==
    \E t \in Threads : ThreadCall(t) \/ ThreadIterate(t) \/ ThreadReturn(t)

SpecThreads == InitThreads /\ [][NextThreads]_vars

\* ------------------------------------------------------------------------
\* The accessors of JsonValue (lib.rs): get, get_mut, get_ind, get_ind_mut
\* ------------------------------------------------------------------------

\* <usize as FromStr>::from_str: an optional '+' and one or more decimal
\* digits; None for every other text.  (The keys tried are too short to
\* overflow a usize.)
ParseUsize(key) ==
    LET ds == IF key # <<>> /\ key[1] = Ch.plus THEN Tail(key) ELSE key
    IN  IF ds = <<>> \/ ~AllDigits(ds) THEN None
        ELSE Some(DigitsToNat(ds))

\* <usize as ToString>::to_string
RECURSIVE UsizeToString(_)
UsizeToString(n) ==
    IF n < 10 THEN <<Ch.zero + n>>
    ELSE Append(UsizeToString(n \div 10), Ch.zero + (n % 10))

\* A mutable reference to an element of a container: the key or the
\* 0-based index it is stored under
Place(at) == [at |-> at]

\* HashMap::get and <[T]>::get
MapGet(map, key) == IF key \in DOMAIN map THEN Some(map[key]) ELSE None

VecGet(array, i) == IF i < Len(array) THEN Some(array[i + 1]) ELSE None

\* HashMap::get_mut and <[T]>::get_mut
MapGetMut(map, key) == IF key \in DOMAIN map THEN Some(Place(key)) ELSE None

VecGetMut(array, i) == IF i < Len(array) THEN Some(Place(i)) ELSE None

\* Option::and_then on the result of key.parse().ok()
AndThenVecGet(parsed, array) ==
    IF parsed = None THEN None ELSE VecGet(array, parsed[1])

AndThenVecGetMut(parsed, array) ==
    IF parsed = None THEN None ELSE VecGetMut(array, parsed[1])

\* JsonValue::get
Get(v, key) ==
    IF v.tag = "Object" THEN MapGet(v.map, key)
    ELSE IF v.tag = "Array" THEN AndThenVecGet(ParseUsize(key), v.items)
    ELSE None

\* JsonValue::get_mut
GetMut(v, key) ==
    IF v.tag = "Object" THEN MapGetMut(v.map, key)
    ELSE IF v.tag = "Array" THEN AndThenVecGetMut(ParseUsize(key), v.items)
    ELSE None

\* A faulty get_ind: an Object is not looked into.
GetIndArrayOnly(v, ind) ==
    IF v.tag = "Array" THEN VecGet(v.items, ind) ELSE None

\* JsonValue::get_ind
GetInd(v, ind) ==
    IF v.tag = "Object" THEN MapGet(v.map, UsizeToString(ind))
    ELSE IF v.tag = "Array" THEN VecGet(v.items, ind)
    ELSE None

\* JsonValue::get_ind_mut
GetIndMut(v, ind) ==
    IF v.tag = "Object" THEN MapGetMut(v.map, UsizeToString(ind))
    ELSE IF v.tag = "Array" THEN VecGetMut(v.items, ind)
    ELSE None

\* What a mutable reference into v points at
Deref(v, place) ==
    IF v.tag = "Object" THEN v.map[place.at] ELSE v.items[place.at + 1]

\* v after w is assigned through a mutable reference into it
Assign(v, place, w) ==
    IF v.tag = "Object" THEN [v EXCEPT !.map[place.at] = w]
    ELSE [v EXCEPT !.items[place.at + 1] = w]

\* Arrays the accessors are tried on hold at most this many elements, and
\* indices up to this are tried.
MaxAccessLen == 2

\* The elements and members of the values the accessors are tried on
AccessElements == {JNull, JBoolean(TRUE), JNumber(F64One)}

\* The keys tried: "", "0", "1", "2", "10", "01", "+1", "+", "-0", "a"
\* and "1a"
AccessKeys ==
    { <<>>, <<Ch.zero>>, <<Ch.one>>, <<Ch.zero + 2>>, <<Ch.one, Ch.zero>>,
      <<Ch.zero, Ch.one>>, <<Ch.plus, Ch.one>>, <<Ch.plus>>,
      <<Ch.minus, Ch.zero>>, <<Ch.a>>, <<Ch.one, Ch.a>> }

\* The keys of the Objects tried: "0", "1", "10", "01", "+1" and "a"
MemberKeys ==
    { <<Ch.zero>>, <<Ch.one>>, <<Ch.one, Ch.zero>>, <<Ch.zero, Ch.one>>,
      <<Ch.plus, Ch.one>>, <<Ch.a>> }

\* The indices tried
AccessIndices == 0..MaxAccessLen \cup {10}

\* Arrays, Objects of at most two members, and values that are neither
AccessValues ==
    { JArray(items) : items \in Strings(AccessElements, MaxAccessLen) }
    \cup { JObject(map) :
             map \in UNION { [ks -> AccessElements] :
                               ks \in { x \in SUBSET MemberKeys : Cardinality(x) <= 2 } } }
    \cup { JNull, JText(<<Ch.zero>>) }

\* The record of an accessor call
Called(op, arg, ret, before, wrote) ==
    [op |-> op, arg |-> arg, ret |-> ret, before |-> before, wrote |-> wrote]

\* The caller calls get(key)
CallGet ==
    /\ \E key \in AccessKeys :
          got' = Some(Called("get", key, Get(json, key), json, None))
    /\ UNCHANGED json
    /\ UNCHANGED <<call_vars, thread_vars, tracker_vars, stack_vars,
                   scalar_vars>>

\* The caller calls get_ind(ind)
CallGetInd ==
    /\ \E ind \in AccessIndices :
          got' = Some(Called("get_ind", ind, GetInd(json, ind), json, None))
    /\ UNCHANGED json
    /\ UNCHANGED <<call_vars, thread_vars, tracker_vars, stack_vars,
                   scalar_vars>>

\* The caller has called a mutable accessor that returned r: it assigns w
\* through the reference if it got one
Written(op, arg, r, w) ==
    IF r = None
    THEN /\ got' = Some(Called(op, arg, None, json, None))
         /\ UNCHANGED json
    ELSE /\ got' = Some(Called(op, arg, Some(Deref(json, r[1])), json, Some(w)))
         /\ json' = Assign(json, r[1], w)

\* The caller calls get_mut(key) and writes through the reference
CallGetMut ==
    /\ \E key \in AccessKeys, w \in AccessElements :
          Written("get_mut", key, GetMut(json, key), w)
    /\ UNCHANGED <<call_vars, thread_vars, tracker_vars, stack_vars,
                   scalar_vars>>

\* The caller calls get_ind_mut(ind) and writes through the reference
CallGetIndMut ==
    /\ \E ind \in AccessIndices, w \in AccessElements :
          Written("get_ind_mut", ind, GetIndMut(json, ind), w)
    /\ UNCHANGED <<call_vars, thread_vars, tracker_vars, stack_vars,
                   scalar_vars>>

InitAccess ==
    /\ NoCall
    /\ NoThreads
    /\ NoTracker
    /\ NoStack
    /\ NoScalar
    /\ json \in AccessValues
    /\ got = None

NextAccess == CallGet \/ CallGetInd \/ CallGetMut \/ CallGetIndMut

SpecAccess == InitAccess /\ [][NextAccess]_vars

\* ------------------------------------------------------------------------
\* A StackCounter on its own: characters are pushed one at a time until a
\* push returns Err (the driver returns then, and the tests stop there)
\* ------------------------------------------------------------------------

\* At most this many characters are pushed.
MaxFed == 5

\* The characters pushed: the brackets, '"', '\' and a plain character
CounterAlphabet ==
    {Ch.lbracket, Ch.rbracket, Ch.lbrace, Ch.rbrace, Ch.quote, Ch.backslash,
     Ch.a}

\* counter.push(c), whose outcome is r
TrackerPushed(c, r) ==
    /\ tracker' = r.counter
    /\ fed' = Append(fed, c)
    /\ pushed' = Some([c |-> c, ok |-> r.ok, before |-> tracker])

Push ==
    /\ Len(fed) < MaxFed
    /\ IF pushed = None THEN TRUE ELSE pushed[1].ok
    /\ \E c \in CounterAlphabet : TrackerPushed(c, StackCounterPush(tracker, c))
    /\ UNCHANGED <<call_vars, thread_vars, access_vars, stack_vars,
                   scalar_vars>>

InitCounter ==
    /\ NoCall /\ NoThreads /\ NoAccess /\ NoTracker /\ NoStack /\ NoScalar

NextCounter == Push

SpecCounter == InitCounter /\ [][NextCounter]_vars

\* ------------------------------------------------------------------------
\* The accumulators on their own: pushes of tokens, then into_json
\* ------------------------------------------------------------------------

\* An accumulator holds at most this many tokens.
MaxTokens == 8

\* An accumulator written as a struct literal holds at most this many.
MaxLiteral == 4

\* The tokens that are pushed
Tokens ==
    {Colon, Comma, Item(JNull), Item(JText(<<Ch.a>>)), Key(<<Ch.a>>),
     Key(<<>>)}

\* ArrayStack::new(), ObjectStack::new(), and ArrayStack { inner: v },
\* ObjectStack { inner: v } for every v
InitStack ==
    /\ NoCall /\ NoThreads /\ NoAccess /\ NoTracker /\ NoScalar
    /\ offered = None
    /\ finalized = None
    /\ \/ /\ origin = "new"
          /\ accumulator \in {ArrayStackNew, ObjectStackNew}
       \/ /\ origin = "literal"
          /\ \E kind \in {"Array", "Object"} :
                \E v \in Strings(Tokens, MaxLiteral) \ {<<>>} :
                   accumulator = [kind |-> kind, inner |-> v]

\* stack.push(item)
AccumulatorPush ==
    /\ finalized = None
    /\ Len(accumulator.inner) < MaxTokens
    /\ \E item \in Tokens :
          LET r == ObjArrPush(accumulator, item)
          IN  /\ accumulator' = r.stack
              /\ offered' = Some([item |-> item, ok |-> r.ok,
                                  before |-> accumulator])
    /\ UNCHANGED <<origin, finalized>>
    /\ UNCHANGED <<call_vars, thread_vars, access_vars, tracker_vars,
                   scalar_vars>>

\* stack.into_json(), which consumes the accumulator
AccumulatorIntoJson ==
    /\ finalized = None
    /\ finalized' = Some(ObjArrIntoJson(accumulator))
    /\ UNCHANGED <<accumulator, origin, offered>>
    /\ UNCHANGED <<call_vars, thread_vars, access_vars, tracker_vars,
                   scalar_vars>>

NextStack == AccumulatorPush \/ AccumulatorIntoJson

SpecStack == InitStack /\ [][NextStack]_vars

\* ------------------------------------------------------------------------
\* The scalar automata on their own: pushes of characters
\* ------------------------------------------------------------------------

\* An automaton is pushed at most this many characters.
MaxPushes == 7

\* The characters that are pushed to each type of automaton; for a
\* TextStack one of each class that TextStack::push and EscapeSequence::push
\* tell apart in the position the stack is in
AutomatonAlphabet(type, stack) ==
    IF type = "Text"
    THEN IF stack.escape = None
         THEN {Ch.quote, Ch.backslash, Ch.a, Ch.newline, Ch.rbracket}
         ELSE IF stack.escape[1].type = "None"
         THEN {Ch.n, Ch.t, Ch.r, Ch.b, Ch.f, Ch.backslash, Ch.quote, Ch.u,
               Ch.a, Ch.zero}
         ELSE {Ch.zero, Ch.nine, Ch.a, Ch.D, Ch.l, Ch.quote, Ch.backslash}
    ELSE IF type = "Number"
    THEN {Ch.zero, Ch.nine, Ch.minus, Ch.plus, Ch.dot, Ch.e, Ch.E, Ch.a}
    ELSE {Ch.t, Ch.r, Ch.u, Ch.e, Ch.f, Ch.a, Ch.l, Ch.s, Ch.n, Ch.quote}

\* StringMatcherStack::new(matchers) inside BoolStack::new(), NullStack::new()
StringMatcherNew(type, matchers) ==
    [kind |-> type, matchers |-> matchers, inner_string |-> <<>>]

\* counter.push('"') at the quote that opens a text, on a counter that has
\* seen nothing or one '['
CompanionAtQuote(seen) ==
    Some([counter |-> StackCounterPush(seen, Ch.quote).counter,
          ok |-> StackCounterPush(seen, Ch.quote).ok,
          start |-> seen.inner])

\* counter.push(c) on the companion, if stack.push(c) returned Ok
CompanionPush(c, accepted) ==
    IF companion = None \/ ~accepted THEN None
    ELSE Some([counter |-> StackCounterPush(companion[1].counter, c).counter,
               ok |-> StackCounterPush(companion[1].counter, c).ok,
               start |-> companion[1].start])

\* The constructors: TextStack::new(), NumberStack::new(), BoolStack::new(),
\* init_true(), init_false(), NullStack::new(), init_n()
InitScalar ==
    /\ NoCall /\ NoThreads /\ NoAccess /\ NoTracker /\ NoStack
    /\ answer = None
    /\ pushes = 0
    /\ completion = FALSE
    /\ converted = None
    /\ \/ /\ species = "Text" /\ automaton = TextStackNew
          /\ companion \in
                {CompanionAtQuote(StackCounterNew),
                 CompanionAtQuote(
                     StackCounterPush(StackCounterNew, Ch.lbracket).counter)}
       \/ species = "Number" /\ automaton = NumberStackNew /\ companion = None
       \/ /\ species = "Bool"
          /\ companion = None
          /\ automaton \in {StringMatcherNew("Bool", BOOL_STRS),
                            BoolStackInit(Ch.t), BoolStackInit(Ch.f)}
       \/ /\ species = "Null"
          /\ companion = None
          /\ automaton \in {StringMatcherNew("Null", NULL_STRS), NullStackInit}

\* stack.push(c)
AutomatonPush ==
    /\ pushes < MaxPushes
    /\ converted = None
    /\ \E c \in AutomatonAlphabet(species, automaton) :
          LET r == IF species = "Number" THEN NumberStackPush(automaton, c)
                   ELSE SimplePush(automaton, c)
          IN  /\ automaton' = r.stack
              /\ answer' = Some([c |-> c, ok |-> r.ok,
                                 done |-> IF r.ok THEN r.done ELSE FALSE,
                                 err |-> IF r.ok THEN None ELSE Some(r.err),
                                 before |-> automaton])
              /\ completion' = (completion \/ (r.ok /\ r.done))
              /\ companion' = CompanionPush(c, r.ok)
    /\ pushes' = pushes + 1
    /\ UNCHANGED <<species, converted>>
    /\ UNCHANGED <<call_vars, thread_vars, access_vars, tracker_vars,
                   stack_vars>>

\* stack.into_json(), which consumes the automaton
AutomatonIntoJson ==
    /\ converted = None
    /\ converted' = Some(IF species = "Number" THEN NumberIntoJson(automaton)
                         ELSE SimpleIntoJson(automaton))
    /\ UNCHANGED <<automaton, species, answer, pushes, completion,
                   companion>>
    /\ UNCHANGED <<call_vars, thread_vars, access_vars, tracker_vars,
                   stack_vars>>

NextScalar == AutomatonPush \/ AutomatonIntoJson

SpecScalar == InitScalar /\ [][NextScalar]_vars

\* ------------------------------------------------------------------------
\* json_parse as one call: on a text, and on what is left of an accepted
\* text when its end is cut off
\* ------------------------------------------------------------------------

InitPrefix ==
    /\ InitParse \/ InitRoundTrip
    /\ NoThreads /\ NoAccess /\ NoTracker /\ NoStack /\ NoScalar

\* json_parse(input), from the call to its return
WholeCall ==
    /\ result = None
    /\ result' = Some(json_parse(input))
    /\ UNCHANGED <<input, consumed, processing, counter, error_ind,
                   content_str, next_must_be_quote, pos, sub, phase, value>>
    /\ UNCHANGED <<thread_vars, access_vars, tracker_vars, stack_vars,
                   scalar_vars>>

\* The caller cuts the end off a text that was accepted and calls
\* json_parse on the proper prefix that is left
Truncate ==
    /\ phase \in {"parse", "roundtrip"}
    /\ result # None
    /\ result[1].kind = "Ok"
    /\ \E k \in 0..(Len(input) - 1) : input' = SubSeq(input, 1, k)
    /\ phase' = "prefix"
    /\ result' = None
    /\ UNCHANGED <<consumed, processing, counter, error_ind, content_str,
                   next_must_be_quote, pos, sub, value>>
    /\ UNCHANGED <<thread_vars, access_vars, tracker_vars, stack_vars,
                   scalar_vars>>

NextPrefix == WholeCall \/ Truncate

SpecPrefix == InitPrefix /\ [][NextPrefix]_vars

\* ------------------------------------------------------------------------
\* Properties
\* ------------------------------------------------------------------------

\* The call has returned
Returned == result # None

\* '[', ']', '{', '}', ',' and ':'
StructuralChars ==
    {Ch.lbracket, Ch.rbracket, Ch.lbrace, Ch.rbrace, Ch.comma, Ch.colon}

\* The bracket counter after the first k characters of text; its in_string
\* tells whether what follows them is inside a string
RECURSIVE CounterAfter(_, _)
CounterAfter(text, k) ==
    IF k = 0 THEN StackCounterNew
    ELSE StackCounterPush(CounterAfter(text, k - 1), text[k]).counter

\* C1: json_parse(v.to_string()) returns Ok(v) for every value v without
\* NaN or infinite numbers, whatever order to_string visits object keys in.
RoundTrip ==
    (phase = "roundtrip" /\ Returned) => result[1] = Ok(value[1])

\* C2: when json_parse(t) returned Ok(v), json_parse(v.to_string()) returns
\* Ok(v) too.
IdempotentNormalization ==
    (phase = "reparse" /\ Returned) => result[1] = Ok(value[1])

\* C3: json_parse returns Ok, UnexpectedToken or UnexpectedEOF and never
\* panics: neither unwrap fails and no finalizer indexes out of range.
TotalErrorReporting ==
    Returned => result[1].kind \in {"Ok", "UnexpectedToken", "UnexpectedEOF"}

\* [{"":1}] was returned: both unwrap sites and both finalizers have run.
TotalErrorReportingWitness ==
    /\ Returned
    /\ result[1].kind = "Ok"
    /\ result[1].value.tag = "Array"
    /\ Len(result[1].value.items) = 1
    /\ result[1].value.items[1].tag = "Object"
    /\ DOMAIN result[1].value.items[1].map = {<<>>}
    /\ result[1].value.items[1].map[<<>>].tag = "Number"

\* C4: an UnexpectedToken carries a 0-based index of the outermost input
\* and the character the input has there, whatever the recursion depth of
\* the call that raised it.
ErrorLocationInInput ==
    (Returned /\ result[1].kind = "UnexpectedToken")
        => /\ result[1].location \in 0..(Len(input) - 1)
           /\ input[result[1].location + 1] = result[1].character

\* "[[01]]": the error is raised two recursive calls deep, at offset 3.
ErrorLocationWitness ==
    /\ input = <<Ch.lbracket, Ch.lbracket, Ch.zero, Ch.one,
                 Ch.rbracket, Ch.rbracket>>
    /\ result = Some(TokErr(Ch.one, 3))
    /\ sub = result

\* The outermost call returned from inside its loop, on the character at
\* offset pos, after a recursive call on the buffered text
ReturnedAtBoundary == Returned /\ sub # None /\ pos = consumed - 1

\* C5: when a delimiter or closing bracket c at offset p triggers the
\* recursive parse, UnexpectedEOF from it is returned as
\* UnexpectedToken{c, p} and UnexpectedToken from it is returned unchanged.
ErrorAdaptation ==
    ReturnedAtBoundary =>
        /\ sub[1].kind = "UnexpectedEOF"
              => result[1] = TokErr(input[consumed], pos)
        /\ sub[1].kind = "UnexpectedToken" => result = sub

\* A recursive call returned UnexpectedEOF at a closing bracket.
ErrorAdaptationWitness ==
    /\ ReturnedAtBoundary
    /\ sub[1].kind = "UnexpectedEOF"
    /\ input[consumed] = Ch.rbracket
    /\ result[1].kind = "UnexpectedToken"

\* The characters a number is written with
NumberChars == {c \in 48..57 : TRUE} \cup {Ch.minus, Ch.plus, Ch.dot, Ch.e, Ch.E}

IsNumberText(text) == \A k \in 1..Len(text) : text[k] \in NumberChars

\* The index after the digits of text that start at index i
DigitsEnd(text, i) ==
    IF i > Len(text) THEN i
    ELSE CHOOSE j \in i..(Len(text) + 1) :
            /\ \A k \in i..(j - 1) : IsDigit10(text[k])
            /\ (j = Len(text) + 1 \/ ~IsDigit10(text[j]))

\* The JSON number grammar: [-] (0 | nonzero digits) [. digits+]
\* [(e|E) [+|-] digits+]
NumberGrammar(text) ==
    LET n == Len(text)
        a == IF n > 0 /\ text[1] = Ch.minus THEN 2 ELSE 1
        b == IF a <= n /\ text[a] = Ch.zero THEN a + 1 ELSE DigitsEnd(text, a)
        hasDot == b <= n /\ text[b] = Ch.dot
        c == IF hasDot THEN DigitsEnd(text, b + 1) ELSE b
        hasExp == c <= n /\ IsExpChar(text[c])
        d == IF hasExp /\ c + 1 <= n /\ text[c + 1] \in {Ch.plus, Ch.minus}
             THEN c + 2 ELSE c + 1
        f == IF hasExp THEN DigitsEnd(text, d) ELSE c
    IN  /\ b > a
        /\ hasDot => c > b + 1
        /\ hasExp => f > d
        /\ f = n + 1

\* C6: a text of number characters is parsed to Ok(Number) exactly when it
\* matches the JSON number grammar.
NumberGrammarIff ==
    (phase = "parse" /\ Returned /\ IsNumberText(input))
        => ((result[1].kind = "Ok" /\ result[1].value.tag = "Number")
            <=> NumberGrammar(input))

\* text has, at index k, a '0' that is the whole part of a number outside
\* a string, and a digit right after it
LeadingZeroAt(text, k) ==
    LET j == IF k > 1 /\ text[k - 1] = Ch.minus THEN k - 1 ELSE k
    IN  /\ text[k] = Ch.zero
        /\ k < Len(text)
        /\ IsDigit10(text[k + 1])
        /\ (j = 1 \/ text[j - 1] \notin NumberChars)
        /\ ~CounterAfter(text, k).in_string

\* C7: a digit d right after a whole part '0' or '-0' is rejected with
\* UnexpectedToken{d, offset of d}, at top level and when the number is an
\* element or member of a container (the text is accepted once d is
\* removed).
LeadingZeroRejected ==
    (phase = "parse" /\ Returned) =>
        \A k \in 1..Len(input) :
            (LeadingZeroAt(input, k)
             /\ json_parse(DeleteAt(input, k + 1)).kind = "Ok")
                => result[1] = TokErr(input[k + 1], k)

\* "[-01]": the digit after the zero of an array's element, at offset 3.
LeadingZeroWitness ==
    /\ input = <<Ch.lbracket, Ch.minus, Ch.zero, Ch.one, Ch.rbracket>>
    /\ result = Some(TokErr(Ch.one, 3))

\* The index of the last character of text before index i that is not
\* whitespace, 0 if there is none
LastNonWhitespaceBefore(text, i) ==
    LET found == { k \in 1..(i - 1) : ~IsWhitespace(text[k]) }
    IN  IF found = {} THEN 0
        ELSE CHOOSE k \in found : \A m \in found : m <= k

\* text has a structural comma at index i that follows an element and is
\* followed, after whitespace only, by a closing bracket at index j, in a
\* container that is well formed but for that comma
TrailingCommaAt(text, i, j) ==
    LET before == LastNonWhitespaceBefore(text, i)
    IN  /\ text[i] = Ch.comma
        /\ text[j] \in {Ch.rbracket, Ch.rbrace}
        /\ \A k \in (i + 1)..(j - 1) : IsWhitespace(text[k])
        /\ ~CounterAfter(text, i).in_string
        /\ before > 0
        /\ text[before] \notin {Ch.lbracket, Ch.lbrace}
        /\ json_parse(DeleteAt(text, i)).kind = "Ok"

AtCharacter == result = None /\ consumed < Len(input)

\* An accumulator of the given kind is pending in the outermost call
Pending(kind) ==
    /\ processing # None
    /\ processing[1].tag = "ObjArr"
    /\ processing[1].stack.kind = kind

\* An Object accumulator is pending, a key is expected and nothing but
\* whitespace has been buffered since
KeyExpected ==
    /\ Pending("Object")
    /\ NextMustBeKey(processing[1].stack)
    /\ ~TrimNonEmpty(content_str)

\* The next character is neither whitespace, nor '"', nor structural
UnquotedNext ==
    LET c == input[consumed + 1]
    IN  ~IsWhitespace(c) /\ c # Ch.quote /\ c \notin StructuralChars

\* C9: where an object expects a key, a first non-whitespace character c
\* other than '"' fails the parse in the very iteration that takes c, with
\* UnexpectedToken{c, offset of c}; an array buffers any non-structural
\* character without this check.
UnquotedKeyRejected ==
    [][/\ (AtCharacter /\ KeyExpected /\ UnquotedNext)
            => result' = Some(TokErr(input[consumed + 1], consumed))
       /\ (AtCharacter /\ Pending("Array")
           /\ input[consumed + 1] \notin StructuralChars)
            => (result' = None /\ content_str' = Append(content_str, input[consumed + 1]))
      ]_vars

\* 'a' where the key of {"":1} should start: the call has returned with
\* the rest of the text not taken.
UnquotedKeyWitness ==
    /\ input = <<Ch.lbrace, Ch.a, Ch.quote, Ch.quote, Ch.colon, Ch.one, Ch.rbrace>>
    /\ result = Some(TokErr(Ch.a, 1))
    /\ consumed = 2

\* After the first k characters of text is a place outside a string that
\* is before the value, after the value, or next to a structural character
MayInsertAt(text, k) ==
    /\ ~CounterAfter(text, k).in_string
    /\ \/ \A m \in 1..k : IsWhitespace(text[m])
       \/ \A m \in (k + 1)..Len(text) : IsWhitespace(text[m])
       \/ text[k] \in StructuralChars
       \/ text[k + 1] \in StructuralChars

\* text is accepted without the whitespace character it has at index k,
\* which stands where whitespace may be inserted
InsertedWhitespaceAt(text, k) ==
    /\ IsWhitespace(text[k])
    /\ MayInsertAt(DeleteAt(text, k), k - 1)
    /\ json_parse(DeleteAt(text, k)).kind = "Ok"

\* C10: a whitespace character inserted into an accepted text before the
\* value, after it, or next to a structural character outside a string
\* gives a text that is accepted with the same value; so does any number
\* of them, one at a time.
WhitespaceInsignificant ==
    (phase = "parse" /\ Returned) =>
        \A k \in 1..Len(input) :
            InsertedWhitespaceAt(input, k)
                => result[1] = json_parse(DeleteAt(input, k))

\* "[1 \n]" was accepted: two whitespace characters before a structural
\* bracket.
WhitespaceInsignificantWitness ==
    /\ input = <<Ch.lbracket, Ch.one, Ch.space, Ch.newline, Ch.rbracket>>
    /\ result = Some(Ok(JArray(<<JNumber(F64One)>>)))

\* The pending item of the running call is Finalized
IsFinalized == processing # None /\ processing[1].tag = "Finalized"

\* C11: once the pending item is Finalized(v) it stays Finalized(v): a
\* whitespace character leaves it as it is, the first non-whitespace
\* character c at offset p makes the call return UnexpectedToken{c, p}, and
\* at the end of the input the call returns Ok(v).  While the call runs, a
\* pending item is never replaced by no pending item.
FinalizedIsFinal ==
    [][result = None =>
         /\ (IsFinalized /\ consumed < Len(input)
                 /\ IsWhitespace(input[consumed + 1]))
               => (result' = None /\ processing' = processing)
         /\ (IsFinalized /\ consumed < Len(input)
                 /\ ~IsWhitespace(input[consumed + 1]))
               => result' = Some(TokErr(input[consumed + 1], consumed))
         /\ (IsFinalized /\ consumed = Len(input))
               => result' = Some(Ok(processing[1].value))
         /\ (processing # None /\ result' = None) => processing' # None
      ]_vars

\* "[] \n" was accepted: the array was finalized at ']' and two whitespace
\* characters followed it.
FinalizedIsFinalWitness ==
    /\ input = <<Ch.lbracket, Ch.rbracket, Ch.space, Ch.newline>>
    /\ result = Some(Ok(JArray(<<>>)))

\* C12: when the input ends while the pending item is not Finalized, the
\* call never returns Ok: if a non-empty buffer remains and parsing it
\* recursively fails, the call returns that error, and in every other case
\* it returns UnexpectedEOF.
EndOfInputFails ==
    [][(result = None /\ consumed = Len(input) /\ ~IsFinalized) =>
         /\ result' # None
         /\ result'[1].kind # "Ok"
         /\ IF Len(content_str) > 0
                /\ json_parse_internal(content_str, error_ind[1]).kind # "Ok"
            THEN result'[1] = json_parse_internal(content_str, error_ind[1])
            ELSE result'[1] = UnexpectedEOF
      ]_vars

\* "[1[]" ended inside the outer array; its buffer "1[]" fails at the '[',
\* offset 2 of the input, and that error was returned.
EndOfInputFailsWitness ==
    /\ input = <<Ch.lbracket, Ch.one, Ch.lbracket, Ch.rbracket>>
    /\ consumed = 4
    /\ content_str = <<Ch.one, Ch.lbracket, Ch.rbracket>>
    /\ result = Some(TokErr(Ch.lbracket, 2))

\* C13: json_parse calls run concurrently, their iterations and those of
\* their recursive invocations interleaved in any order, each return what
\* json_parse returns for their input when run alone, and each step
\* changes the state of one call only.
ThreadSafety ==
    [][/\ \A t \in Threads :
            threads'[t].result # None
                => threads'[t].result[1] = json_parse(threads'[t].input)
       /\ \E t \in Threads :
            \A u \in Threads \ {t} : threads'[u] = threads[u]
      ]_vars

\* Thread 1 has returned the error of "[01]" while thread 2, parsing
\* "[[1]]", is two recursive invocations deep.
ThreadSafetyWitness ==
    /\ threads # <<>>
    /\ threads[1].input = <<Ch.lbracket, Ch.zero, Ch.one, Ch.rbracket>>
    /\ threads[1].result = Some(TokErr(Ch.one, 2))
    /\ threads[2].input =
          <<Ch.lbracket, Ch.lbracket, Ch.one, Ch.rbracket, Ch.rbracket>>
    /\ Len(threads[2].frames) = 3

\* The indices of the characters c of text that are outside every string
\* and every bracket of text
TopLevel(text, c) ==
    { k \in 1..Len(text) :
        /\ text[k] = c
        /\ Level(CounterAfter(text, k)) = 0
        /\ ~CounterAfter(text, k).in_string }

\* The i-th smallest of a set of indices
NthMark(marks, i) ==
    CHOOSE k \in marks : Cardinality({ m \in marks : m < k }) = i - 1

\* The pieces of text between the given indices, in textual order
Pieces(text, marks) ==
    LET n == Cardinality(marks)
    IN  [i \in 1..(n + 1) |->
            SubSeq(text,
                   (IF i = 1 THEN 0 ELSE NthMark(marks, i - 1)) + 1,
                   (IF i = n + 1 THEN Len(text) + 1 ELSE NthMark(marks, i)) - 1)]

\* What is between the first and the last character of text
Inside(text) == SubSeq(text, 2, Len(text) - 1)

IsBlank(text) == \A k \in 1..Len(text) : IsWhitespace(text[k])

\* The comma-separated elements or members written in a container text
ElementTexts(text) == Pieces(Inside(text), TopLevel(Inside(text), Ch.comma))

\* The key text of a member: what is before its first colon
KeyText(member) ==
    IF TopLevel(member, Ch.colon) = {} THEN member
    ELSE SubSeq(member, 1, NthMark(TopLevel(member, Ch.colon), 1) - 1)

\* The value text of a member: what is after its first colon
ValueText(member) ==
    IF TopLevel(member, Ch.colon) = {} THEN <<>>
    ELSE SubSeq(member, NthMark(TopLevel(member, Ch.colon), 1) + 1, Len(member))

\* text is '[' ... ']' and every element written in it is a JSON text
WellFormedArray(text) ==
    /\ Len(text) >= 2
    /\ text[1] = Ch.lbracket
    /\ text[Len(text)] = Ch.rbracket
    /\ ~IsBlank(Inside(text))
    /\ LET ps == ElementTexts(text)
       IN  \A i \in DOMAIN ps : json_parse(ps[i]).kind = "Ok"

\* text is '{' ... '}' and every member written in it is a string, a
\* colon and a JSON text
WellFormedObject(text) ==
    /\ Len(text) >= 2
    /\ text[1] = Ch.lbrace
    /\ text[Len(text)] = Ch.rbrace
    /\ ~IsBlank(Inside(text))
    /\ LET ps == ElementTexts(text)
       IN  \A i \in DOMAIN ps :
              LET key == json_parse(KeyText(ps[i]))
              IN  /\ key.kind = "Ok"
                  /\ key.value.tag = "Text"
                  /\ json_parse(ValueText(ps[i])).kind = "Ok"

\* text is '[' or '{', whitespace only, and the matching bracket
EmptyContainer(text, open, close) ==
    /\ Len(text) >= 2
    /\ text[1] = open
    /\ text[Len(text)] = close
    /\ IsBlank(Inside(text))

\* C14: a well-formed array text is parsed to the Array of the values of
\* its comma-separated elements in textual order, a well-formed object text
\* to the Object that maps each key to a value written after that key's
\* colon, "[]" and "{}" (also with whitespace inside) to the empty Array
\* and Object; the elements are parsed by the same rules.
ContainerConstruction ==
    (phase = "parse" /\ Returned) =>
        /\ EmptyContainer(input, Ch.lbracket, Ch.rbracket)
              => result[1] = Ok(JArray(<<>>))
        /\ EmptyContainer(input, Ch.lbrace, Ch.rbrace)
              => result[1] = Ok(JObject(<<>>))
        /\ WellFormedArray(input)
              => result[1] = Ok(JArray(
                    [i \in DOMAIN ElementTexts(input) |->
                        json_parse(ElementTexts(input)[i]).value]))
        /\ WellFormedObject(input)
              => /\ result[1].kind = "Ok"
                 /\ result[1].value.tag = "Object"
                 /\ DOMAIN result[1].value.map =
                       { json_parse(KeyText(ElementTexts(input)[i])).value.text :
                           i \in DOMAIN ElementTexts(input) }
                 /\ \A k \in DOMAIN result[1].value.map :
                       \E i \in DOMAIN ElementTexts(input) :
                          LET m == ElementTexts(input)[i]
                          IN  /\ json_parse(KeyText(m)).value.text = k
                              /\ json_parse(ValueText(m)).value
                                    = result[1].value.map[k]

\* "["",[1]]" was parsed to the Array of "" and [1], in that order.
ContainerConstructionWitness ==
    /\ input = <<Ch.lbracket, Ch.quote, Ch.quote, Ch.comma,
                 Ch.lbracket, Ch.one, Ch.rbracket, Ch.rbracket>>
    /\ result = Some(Ok(JArray(<<JText(<<>>), JArray(<<JNumber(F64One)>>)>>)))

\* The lowercase hex digit of a number below 16
HexDigit(n) == IF n < 10 THEN Ch.zero + n ELSE Ch.a + (n - 10)

\* What a character of a string is serialized as
EscapedAs(c) ==
    CASE c = Ch.newline -> <<Ch.backslash, Ch.n>>
      [] c = Ch.tab -> <<Ch.backslash, Ch.t>>
      [] c = Ch.cr -> <<Ch.backslash, Ch.r>>
      [] c = Ch.backspace -> <<Ch.backslash, Ch.b>>
      [] c = Ch.formfeed -> <<Ch.backslash, Ch.f>>
      [] c = Ch.backslash -> <<Ch.backslash, Ch.backslash>>
      [] c = Ch.quote -> <<Ch.backslash, Ch.quote>>
      [] c < 32 /\ c \notin {Ch.newline, Ch.tab, Ch.cr, Ch.backspace, Ch.formfeed}
           -> <<Ch.backslash, Ch.u, HexDigit(0), HexDigit(0),
                HexDigit(c \div 16), HexDigit(c % 16)>>
      [] OTHER -> <<c>>

\* The escapes of the characters of text one after the other
RECURSIVE EscapedText(_)
EscapedText(text) ==
    IF text = <<>> THEN <<>>
    ELSE EscapedAs(Head(text)) \o EscapedText(Tail(text))

\* A Text value has been serialized into input
SerializedText ==
    phase \in {"roundtrip", "reparse"} /\ value # None /\ value[1].tag = "Text"

\* C15: escape_str puts the text between double quotes and writes each
\* character on its own: \n \t \r \b \f for newline, tab, carriage return,
\* backspace, form feed; \\ for backslash; \" for the double quote; \u and
\* exactly 4 lowercase zero-padded hex digits for every other character
\* below 0x20; the character itself otherwise.
EscapeStrMapping ==
    SerializedText =>
        input = <<Ch.quote>> \o EscapedText(value[1].text) \o <<Ch.quote>>

\* The text of U+001F and a newline was serialized as "\u001f\n".
EscapeStrMappingWitness ==
    /\ phase = "roundtrip"
    /\ value = Some(JText(<<Ch.us, Ch.newline>>))
    /\ input = <<Ch.quote, Ch.backslash, Ch.u, Ch.zero, Ch.zero, Ch.one, Ch.f,
                 Ch.backslash, Ch.n, Ch.quote>>

\* input is the text to_string returned for value
Serialized == phase \in {"roundtrip", "reparse"} /\ value # None

\* text is what v's members are rendered as, in some order: each piece is
\* an escaped key, ':' and a rendering of that key's value, one piece per
\* key
RendersMembers(text, v) ==
    LET ps == ElementTexts(text)
        keyOf(m) == { k \in DOMAIN v.map :
                        KeyText(m) = <<Ch.quote>> \o EscapedText(k) \o <<Ch.quote>> }
    IN  /\ Len(ps) = Cardinality(DOMAIN v.map)
        /\ \A i \in DOMAIN ps :
              \E k \in keyOf(ps[i]) : ValueText(ps[i]) \in ToStrings(v.map[k])
        /\ \A k \in DOMAIN v.map : \E i \in DOMAIN ps : k \in keyOf(ps[i])

\* C16: to_string is compact: null, true and false are rendered as those
\* literals, an Array as '[', its elements' renderings in order joined by
\* ',', and ']', an Object as '{', its escaped-key ':' value pairs joined
\* by ',', and '}', empty ones as "[]" and "{}", and no whitespace appears
\* outside string contents.  The text is looked at where the call that parses
\* it back starts.
CompactSerialization ==
    (Serialized /\ consumed = 0) =>
        LET v == value[1]
            n == Len(input)
        IN  /\ v.tag = "Null" => input = <<Ch.n, Ch.u, Ch.l, Ch.l>>
            /\ (v.tag = "Boolean" /\ v.bool) => input = <<Ch.t, Ch.r, Ch.u, Ch.e>>
            /\ (v.tag = "Boolean" /\ ~v.bool)
                  => input = <<Ch.f, Ch.a, Ch.l, Ch.s, Ch.e>>
            /\ v.tag = "Array"
                  => /\ input[1] = Ch.lbracket /\ input[n] = Ch.rbracket
                     /\ IF v.items = <<>> THEN n = 2
                        ELSE /\ Len(ElementTexts(input)) = Len(v.items)
                             /\ \A i \in DOMAIN v.items :
                                   ElementTexts(input)[i] \in ToStrings(v.items[i])
            /\ v.tag = "Object"
                  => /\ input[1] = Ch.lbrace /\ input[n] = Ch.rbrace
                     /\ IF DOMAIN v.map = {} THEN n = 2
                        ELSE RendersMembers(input, v)
            /\ \A k \in 1..n :
                  IsWhitespace(input[k]) => CounterAfter(input, k).in_string

\* The Array of "" and the empty Object was serialized as ["",{}].
CompactSerializationWitness ==
    /\ phase = "roundtrip"
    /\ value = Some(JArray(<<JText(<<>>), JObject(<<>>)>>))
    /\ input = <<Ch.lbracket, Ch.quote, Ch.quote, Ch.comma, Ch.lbrace,
                 Ch.rbrace, Ch.rbracket>>

\* The decimal string of a number below 100
Decimal(i) ==
    IF i < 10 THEN <<Ch.zero + i>>
    ELSE <<Ch.zero + (i \div 10), Ch.zero + (i % 10)>>

\* key reads as the non-negative integer i: an optional '+', any leading
\* zeros, and the decimal digits of i
Denotes(key, i) ==
    LET ds == IF key # <<>> /\ key[1] = Ch.plus THEN Tail(key) ELSE key
    IN  \E z \in 0..Len(ds) : ds = [k \in 1..z |-> Ch.zero] \o Decimal(i)

\* Where a container keeps its elements: the indices of an Array from 0,
\* the keys of an Object
Slots(v) ==
    IF v.tag = "Array" THEN 0..(Len(v.items) - 1)
    ELSE IF v.tag = "Object" THEN DOMAIN v.map
    ELSE {}

\* The element a container keeps in a slot
At(v, slot) == IF v.tag = "Array" THEN v.items[slot + 1] ELSE v.map[slot]

\* The slots get(key) and get_ind(ind) are to look in: one slot or none
SlotsOfKey(v, key) ==
    IF v.tag = "Array" THEN { i \in Slots(v) : Denotes(key, i) }
    ELSE { k \in Slots(v) : k = key }

SlotsOfInd(v, ind) ==
    IF v.tag = "Array" THEN { i \in Slots(v) : i = ind }
    ELSE { k \in Slots(v) : k = Decimal(ind) }

\* The slots an accessor call is to look in
SlotsOf(g) ==
    IF g.op \in {"get", "get_mut"} THEN SlotsOfKey(g.before, g.arg)
    ELSE SlotsOfInd(g.before, g.arg)

\* after is before with w in the given slot and nothing else changed
ChangedOnly(before, after, slot, w) ==
    /\ after.tag = before.tag
    /\ Slots(after) = Slots(before)
    /\ At(after, slot) = w
    /\ \A x \in Slots(before) \ {slot} : At(after, x) = At(before, x)

\* C17: get(key) returns the value an Object stores under key, the element
\* of an Array at the index key reads as, and None when there is no such
\* member or element or the value is neither; get_ind(i) returns the i-th
\* element of an Array and the value an Object stores under the decimal
\* string of i, None otherwise; get_mut and get_ind_mut address the same
\* element, and a write through them changes that element only.
AccessorLookup ==
    got # None =>
        LET g == got[1]
            slots == SlotsOf(g)
        IN  /\ Cardinality(slots) <= 1
            /\ slots = {} => (g.ret = None /\ json = g.before)
            /\ \A slot \in slots :
                  /\ g.ret = Some(At(g.before, slot))
                  /\ g.op \in {"get", "get_ind"} => json = g.before
                  /\ g.op \in {"get_mut", "get_ind_mut"}
                        => /\ g.wrote # None
                           /\ ChangedOnly(g.before, json, slot, g.wrote[1])

\* get_ind_mut(10) on the Object {"10": null, "a": true} returned a
\* reference to the null, and the number 1 was written through it.
AccessorLookupWitness ==
    /\ got # None
    /\ got[1].op = "get_ind_mut"
    /\ got[1].arg = 10
    /\ got[1].ret = Some(JNull)
    /\ got[1].before.tag = "Object"
    /\ DOMAIN got[1].before.map = {<<Ch.one, Ch.zero>>, <<Ch.a>>}
    /\ json.map[<<Ch.one, Ch.zero>>] = JNumber(F64One)
    /\ json.map[<<Ch.a>>] = JBoolean(TRUE)

Brackets == {Ch.lbracket, Ch.rbracket, Ch.lbrace, Ch.rbrace}

\* The close bracket of an open bracket
CloseOf(open) == IF open = Ch.lbracket THEN Ch.rbracket ELSE Ch.rbrace

\* A reading of text from its start: the open brackets outside strings not
\* yet matched by a close bracket (innermost last), whether what follows is
\* inside a string, and whether it follows an unescaped backslash of a
\* string.  A close bracket matches the innermost open bracket if that is
\* of its type, and no bracket otherwise.
RECURSIVE Reading(_)
Reading(text) ==
    IF text = <<>> THEN [opens |-> <<>>, str |-> FALSE, esc |-> FALSE]
    ELSE LET p == Reading(SubSeq(text, 1, Len(text) - 1))
             c == text[Len(text)]
         IN  IF p.esc THEN [p EXCEPT !.esc = FALSE]
             ELSE IF p.str
             THEN [p EXCEPT !.esc = (c = Ch.backslash),
                            !.str = (c # Ch.quote)]
             ELSE IF c = Ch.quote THEN [p EXCEPT !.str = TRUE]
             ELSE IF c \in {Ch.lbracket, Ch.lbrace}
             THEN [p EXCEPT !.opens = Append(@, c)]
             ELSE IF /\ c \in {Ch.rbracket, Ch.rbrace}
                     /\ p.opens # <<>>
                     /\ c = CloseOf(p.opens[Len(p.opens)])
             THEN [p EXCEPT !.opens = SubSeq(@, 1, Len(@) - 1)]
             ELSE p

\* The last push left the bracket stack as it was unless it pushed a
\* bracket while in_string was false
StackFrame ==
    pushed # None =>
        (tracker.inner # pushed[1].before.inner
            => (pushed[1].c \in Brackets /\ ~pushed[1].before.in_string))

\* C18 as stated: push changes the bracket stack only for brackets fed
\* while in_string is false, and level() always equals the number of open
\* brackets outside strings not yet matched by a close bracket.
TrackerLevelAlways ==
    /\ StackFrame
    /\ Level(tracker) = Len(Reading(fed).opens)

\* C18: push changes the bracket stack only for brackets fed while
\* in_string is false, and for as long as every push has returned Ok,
\* level() equals the number of open brackets outside strings not yet
\* matched by a close bracket.
TrackerLevelWhileOk ==
    /\ StackFrame
    /\ (pushed = None \/ pushed[1].ok)
          => Level(tracker) = Len(Reading(fed).opens)

\* After '[', '{', '"' and ']' the stack still holds the two open
\* brackets: the ']' was fed inside a string.
TrackerLevelWitness ==
    /\ fed = <<Ch.lbracket, Ch.lbrace, Ch.quote, Ch.rbracket>>
    /\ tracker.inner = <<Ch.lbracket, Ch.lbrace>>
    /\ tracker.in_string

\* C20: the escape flag of the depth tracker becomes true only on a
\* backslash fed while in_string is true and no escape is pending; it is
\* false again after the very next character, whatever that is, and that
\* character neither toggles in_string nor changes the bracket stack.  The
\* flag is never true while in_string is false.
EscapeTransient ==
    /\ tracker.escape => tracker.in_string
    /\ pushed # None =>
          LET before == pushed[1].before
              c == pushed[1].c
          IN  /\ tracker.escape
                    <=> (c = Ch.backslash /\ before.in_string /\ ~before.escape)
              /\ before.escape
                    => /\ ~tracker.escape
                       /\ tracker.in_string = before.in_string
                       /\ tracker.inner = before.inner

\* After '[', '"', '\' and '"' the string is still open and no escape is
\* pending: the second quote was escaped.
EscapeTransientWitness ==
    /\ fed = <<Ch.lbracket, Ch.quote, Ch.backslash, Ch.quote>>
    /\ tracker.in_string
    /\ ~tracker.escape
    /\ pushed[1].before.escape

\* The running call is about to feed its counter a close bracket outside
\* a string that the innermost open bracket does not match, or that finds
\* no open bracket
UnmatchedCloseNext ==
    /\ result = None
    /\ consumed < Len(input)
    /\ input[consumed + 1] \in {Ch.rbracket, Ch.rbrace}
    /\ ~counter.in_string
    /\ IF counter.inner = <<>> THEN TRUE
       ELSE input[consumed + 1] # CloseOf(counter.inner[Len(counter.inner)])

\* C19: a '}' or ']' fed outside a string returns Ok only if the bracket
\* stack is not empty and its most recent open bracket is of the matching
\* type; otherwise push returns Err, and the driver returns
\* UnexpectedToken for that bracket at its offset.  Every other character
\* returns Ok.
BracketMatching ==
    [][(result = None /\ consumed < Len(input)) =>
          /\ StackCounterPush(counter, input[consumed + 1]).ok
                <=> ~UnmatchedCloseNext
          /\ UnmatchedCloseNext
                => result' = Some(TokErr(input[consumed + 1], consumed))
      ]_vars

\* "[}]": the '}' at offset 1 found '[' open.
BracketMatchingWitness ==
    /\ input = <<Ch.lbracket, Ch.rbrace, Ch.rbracket>>
    /\ consumed = 2
    /\ result = Some(TokErr(Ch.rbrace, 1))

\* The outermost call is about to take a character with an accumulator
\* pending
PendingAtCharacter ==
    /\ result = None
    /\ consumed < Len(input)
    /\ processing # None
    /\ processing[1].tag = "ObjArr"

\* The step appended the character it took to the buffer and left the
\* pending accumulator as it was
Buffered ==
    /\ result' = None
    /\ content_str' = Append(content_str, input[consumed + 1])
    /\ processing' = processing

\* The step used the character it took as the given delimiter token: the
\* anchor is taken, and the call either returns or has pushed the token
\* and cleared the buffer
UsedAsDelimiter(token) ==
    /\ error_ind' = None
    /\ content_str' # Append(content_str, input[consumed + 1])
    /\ \/ result' # None
       \/ /\ processing' # None
          /\ processing'[1].tag = "ObjArr"
          /\ Len(processing'[1].stack.inner) > Len(processing[1].stack.inner)
          /\ Peek(processing'[1].stack) = token.t
          /\ content_str' = <<>>

\* The step used the character it took as the closing bracket: the anchor
\* is taken, and the call either returns or has finalized the accumulator
UsedAsEnd ==
    /\ error_ind' = None
    /\ content_str' # Append(content_str, input[consumed + 1])
    /\ \/ result' # None
       \/ /\ processing' # None
          /\ processing'[1].tag = "Finalized"
          /\ content_str' = <<>>

\* C21, first part: with an accumulator pending and the counter accepting
\* the character, a delimiter of the container is used as a token exactly
\* when, after the counter was fed it, level() = 1 and in_string() is
\* false, and the container's closing bracket is used to finalize exactly
\* when level() = 0 and in_string() is false; in every other case the
\* delimiter or bracket is appended to the buffer, the token sequence is
\* unchanged and the accumulator stays pending.
StructuralOnlyAtOwnLevelStep ==
    [][(PendingAtCharacter /\ StackCounterPush(counter, input[consumed + 1]).ok) =>
          LET c == input[consumed + 1]
              stack == processing[1].stack
              delimiter == GetDelimiter(stack, c)
              own == Level(counter') = 1 /\ ~counter'.in_string
              out == Level(counter') = 0 /\ ~counter'.in_string
          IN  /\ delimiter # None =>
                    /\ own => UsedAsDelimiter(delimiter[1])
                    /\ ~own => Buffered
              /\ IsEndChar(stack, c) =>
                    /\ out => UsedAsEnd
                    /\ ~out => Buffered
      ]_vars

\* C21, second part: while an accumulator is pending in a running call the
\* level of its counter is at least 1.
PendingLevelAtLeastOne ==
    (result = None /\ processing # None /\ processing[1].tag = "ObjArr")
        => Level(counter) >= 1

\* C21: both parts.
StructuralOnlyAtOwnLevel ==
    StructuralOnlyAtOwnLevelStep /\ []PendingLevelAtLeastOne

\* "[[1,": an array is pending at level 2, and the ',' of the inner array
\* is in the buffer after "[1".
StructuralOnlyAtOwnLevelWitness ==
    /\ result = None
    /\ processing # None
    /\ processing[1].tag = "ObjArr"
    /\ processing[1].stack.inner = <<>>
    /\ Level(counter) = 2
    /\ content_str = <<Ch.lbracket, Ch.one, Ch.comma>>

\* The buffer is empty or holds whitespace only
BlankBuffer == \A i \in 1..Len(content_str) : IsWhitespace(content_str[i])

\* C22: with an accumulator pending and the buffer empty or whitespace-only,
\* a structural ',' or ':' at offset p makes the call return
\* UnexpectedToken{that character, p} with no recursive call made; the
\* structural closing bracket makes no recursive call and pushes no Item:
\* the accumulator is finalized from its tokens as they are, so that no
\* token gives the empty container and a last Comma or Colon gives
\* UnexpectedToken{the bracket, p}.
BlankBufferHandling ==
    [][(PendingAtCharacter /\ BlankBuffer
          /\ StackCounterPush(counter, input[consumed + 1]).ok
          /\ ~counter'.in_string) =>
          LET c == input[consumed + 1]
              stack == processing[1].stack
              fin == ObjArrIntoJson(stack)
          IN  /\ (GetDelimiter(stack, c) # None /\ Level(counter') = 1) =>
                    /\ result' = Some(TokErr(c, consumed))
                    /\ sub' = None
              /\ (IsEndChar(stack, c) /\ Level(counter') = 0) =>
                    /\ sub' = None
                    /\ IF fin = None
                       THEN result' = Some(TokErr(c, consumed))
                       ELSE /\ result' = None
                            /\ processing' = Some(FinalizedJsonValue(fin[1]))
                    /\ stack.inner = <<>> =>
                          /\ result' = None
                          /\ processing' = Some(FinalizedJsonValue(
                                IF stack.kind = "Array" THEN JArray(<<>>)
                                ELSE JObject(<<>>)))
                    /\ Peek(stack) \in {"Comma", "Colon"} =>
                          result' = Some(TokErr(c, consumed))
      ]_vars

\* "[ ]": the ']' at offset 2 found a buffer of one space and no token, and
\* the empty array is the finalized value.
BlankBufferHandlingWitness ==
    /\ input = <<Ch.lbracket, Ch.space, Ch.rbracket>>
    /\ consumed = 3
    /\ result = None
    /\ sub = None
    /\ processing = Some(FinalizedJsonValue(JArray(<<>>)))

\* C23, as a property of every state: while the call runs with an
\* accumulator pending, the anchor is set exactly when the buffer is not
\* empty, and then the anchor is the offset of the buffer's first character
\* and the buffer is the input from the anchor up to, not including, the
\* current position.
AnchorMatchesBuffer ==
    (result = None /\ processing # None /\ processing[1].tag = "ObjArr") =>
        /\ error_ind # None <=> content_str # <<>>
        /\ error_ind # None =>
              /\ error_ind[1] + Len(content_str) = pos
              /\ content_str = SubSeq(input, error_ind[1] + 1, pos)

\* C23, as a property of every step that goes on: after a structural
\* delimiter and after the structural closing bracket the anchor is unset
\* and the buffer is empty.
AnchorResetWithBuffer ==
    [][(PendingAtCharacter /\ result' = None /\ ~counter'.in_string) =>
          LET c == input[consumed + 1]
              stack == processing[1].stack
          IN  (\/ GetDelimiter(stack, c) # None /\ Level(counter') = 1
               \/ IsEndChar(stack, c) /\ Level(counter') = 0)
                 => error_ind' = None /\ content_str' = <<>>
      ]_vars

\* C23: the buffer and its anchor.
BufferAnchor == []AnchorMatchesBuffer /\ AnchorResetWithBuffer

\* After a first element and its ',' the buffer holds two or more
\* characters, anchored past the ','.
BufferAnchorWitness ==
    /\ result = None
    /\ processing # None
    /\ processing[1].tag = "ObjArr"
    /\ Peek(processing[1].stack) = "Comma"
    /\ Len(content_str) >= 2
    /\ error_ind # None
    /\ error_ind[1] >= 3

\* The type of the last token of a token sequence, "None" if it is empty
LastOf(tokens) == IF tokens = <<>> THEN "None" ELSE tokens[Len(tokens)].t

\* The last call on the accumulator of the given kind was a push
PushedTo(kind) == offered # None /\ offered[1].before.kind = kind

\* C24: a push to an ArrayStack returns Ok exactly when the sequence is
\* empty or ends in Comma and the token is an Item, or the sequence ends in
\* Item and the token is Comma; an accepted token is appended as it is, and
\* every other push (any Colon or Key among them) returns Err and leaves
\* the sequence unchanged.
ArrayPushTable ==
    PushedTo("Array") =>
        LET before == offered[1].before.inner
            item == offered[1].item
            accepted ==
                \/ LastOf(before) \in {"None", "Comma"} /\ item.t = "Item"
                \/ LastOf(before) = "Item" /\ item.t = "Comma"
        IN  /\ offered[1].ok <=> accepted
            /\ accepted => accumulator.inner = Append(before, item)
            /\ ~accepted => accumulator.inner = before

\* An ArrayStack made by new() and holding Item, Comma, Item has refused a
\* Colon.
ArrayPushTableWitness ==
    /\ PushedTo("Array")
    /\ origin = "new"
    /\ Len(accumulator.inner) = 3
    /\ offered[1].item = Colon
    /\ ~offered[1].ok
    /\ accumulator = offered[1].before

\* C25: a push to an ObjectStack returns Ok exactly when the sequence is
\* empty or ends in Comma and the token is a Key or an Item holding a Text,
\* or it ends in Key and the token is Colon, or it ends in Colon and the
\* token is an Item, or it ends in Item and the token is Comma.  Where a
\* key is expected the token appended is Key of the string; after Colon the
\* Item is appended as it is, a Text too; every other push returns Err and
\* leaves the sequence unchanged.
ObjectPushTable ==
    PushedTo("Object") =>
        LET before == offered[1].before.inner
            item == offered[1].item
            asKey ==
                /\ LastOf(before) \in {"None", "Comma"}
                /\ item.t = "Key" \/ (item.t = "Item" /\ item.item.tag = "Text")
            asIs ==
                \/ LastOf(before) = "Key" /\ item.t = "Colon"
                \/ LastOf(before) = "Colon" /\ item.t = "Item"
                \/ LastOf(before) = "Item" /\ item.t = "Comma"
        IN  /\ offered[1].ok <=> (asKey \/ asIs)
            /\ asKey => accumulator.inner =
                  Append(before, Key(IF item.t = "Key" THEN item.key
                                     ELSE item.item.text))
            /\ asIs => accumulator.inner = Append(before, item)
            /\ ~(asKey \/ asIs) => accumulator.inner = before

\* An ObjectStack made by new() holds Key("a"), Colon, Item(Text("a")),
\* Comma, Key("a"): the last push was of Item(Text("a")).
ObjectPushTableWitness ==
    /\ PushedTo("Object")
    /\ origin = "new"
    /\ offered[1].item = Item(JText(<<Ch.a>>))
    /\ offered[1].ok
    /\ accumulator.inner =
          <<Key(<<Ch.a>>), Colon, Item(JText(<<Ch.a>>)), Comma, Key(<<Ch.a>>)>>

\* The token sequence repeats the given cycle of token types from its start
Cycles(tokens, cycle) ==
    \A i \in 1..Len(tokens) : tokens[i].t = cycle[((i - 1) % Len(cycle)) + 1]

\* Item (Comma Item)*, or empty
ArrayShape(tokens) ==
    \/ tokens = <<>>
    \/ Cycles(tokens, <<"Item", "Comma">>) /\ Len(tokens) % 2 = 1

\* Key Colon Item (Comma Key Colon Item)*, or empty
ObjectShape(tokens) ==
    \/ tokens = <<>>
    \/ /\ Cycles(tokens, <<"Key", "Colon", "Item", "Comma">>)
       /\ Len(tokens) % 4 = 3

\* The values of the Item tokens, in the order of the sequence
ItemValues(tokens) ==
    LET items == SelectSeq(tokens, LAMBDA x : x.t = "Item")
    IN  [i \in 1..Len(items) |-> items[i].item]

\* into_json has been called on the accumulator of the given kind
Finalized(kind) == finalized # None /\ accumulator.kind = kind

\* C26: the tokens of an ArrayStack made by new() alternate Item, Comma,
\* Item, ... whatever was pushed; into_json of any ArrayStack returns Err
\* exactly when the last token is Comma and otherwise Array of the values
\* of its Item tokens in order; so into_json of an ArrayStack made by new()
\* returns Ok only for the empty sequence and for Item (Comma Item)*.
ArrayInvariantAndFinalize ==
    accumulator.kind = "Array" =>
        /\ origin = "new" => Cycles(accumulator.inner, <<"Item", "Comma">>)
        /\ finalized # None =>
              /\ finalized[1] = None <=> LastOf(accumulator.inner) = "Comma"
              /\ finalized[1] # None =>
                    finalized[1][1] = JArray(ItemValues(accumulator.inner))
              /\ (origin = "new" /\ finalized[1] # None) =>
                    ArrayShape(accumulator.inner)

\* Item(Null), Comma, Item(Text("a")) were pushed to ArrayStack::new() and
\* into_json returned Array [Null, Text("a")].
ArrayInvariantAndFinalizeWitness ==
    /\ Finalized("Array")
    /\ origin = "new"
    /\ accumulator.inner = <<Item(JNull), Comma, Item(JText(<<Ch.a>>))>>
    /\ finalized = Some(Some(JArray(<<JNull, JText(<<Ch.a>>)>>)))

\* The keys of the Key tokens of a token sequence
KeysOf(tokens) ==
    { tokens[i].key : i \in { j \in 1..Len(tokens) : tokens[j].t = "Key" } }

\* The value of the Item that follows the last Key(k) Colon of an
\* object-shaped token sequence
LastValueOf(tokens, k) ==
    LET at == { i \in 1..Len(tokens) : tokens[i].t = "Key" /\ tokens[i].key = k }
        last == CHOOSE i \in at : \A j \in at : j <= i
    IN  tokens[last + 2].item

\* C27: into_json of any ObjectStack returns Ok exactly when the sequence
\* is empty or Key Colon Item (Comma Key Colon Item)*; it returns Err when
\* the last token is Comma, Key or Colon and when one of the groups of four
\* tokens, counted from the start, is not Key, Colon, Item, Comma.  On
\* success the Object has the keys of the sequence, each with the Item that
\* follows its Key (the last one, for a key that occurs again).  The tokens
\* of an ObjectStack made by new() are a prefix of (Key Colon Item Comma)*.
ObjectFinalize ==
    accumulator.kind = "Object" =>
        LET tokens == accumulator.inner
            groups == { k \in 0..Len(tokens) : 4 * k + 4 <= Len(tokens) }
        IN  /\ origin = "new" =>
                  Cycles(tokens, <<"Key", "Colon", "Item", "Comma">>)
            /\ finalized # None =>
                  /\ finalized[1] # None <=> ObjectShape(tokens)
                  /\ LastOf(tokens) \in {"Comma", "Key", "Colon"}
                        => finalized[1] = None
                  /\ (\E k \in groups :
                         ~Cycles(SubSeq(tokens, 4 * k + 1, 4 * k + 4),
                                 <<"Key", "Colon", "Item", "Comma">>))
                        => finalized[1] = None
                  /\ finalized[1] # None =>
                        /\ finalized[1][1].tag = "Object"
                        /\ DOMAIN finalized[1][1].map = KeysOf(tokens)
                        /\ \A k \in KeysOf(tokens) :
                              finalized[1][1].map[k] = LastValueOf(tokens, k)

\* Key(""), Colon, Item(Null), Comma, Key("a"), Colon, Item(Text("a"))
\* were pushed to ObjectStack::new() and into_json returned the Object of
\* the two members.
ObjectFinalizeWitness ==
    /\ Finalized("Object")
    /\ origin = "new"
    /\ accumulator.inner =
          <<Key(<<>>), Colon, Item(JNull), Comma,
            Key(<<Ch.a>>), Colon, Item(JText(<<Ch.a>>))>>
    /\ finalized # None
    /\ finalized[1] # None
    /\ DOMAIN finalized[1][1].map = {<<>>, <<Ch.a>>}

\* The key the i-th member written in an object text is written with
MemberKey(text, i) == json_parse(KeyText(ElementTexts(text)[i])).value.text

\* The object text writes some key more than once
RepeatsAKey(text) ==
    /\ WellFormedObject(text)
    /\ LET keys == [i \in DOMAIN ElementTexts(text) |-> MemberKey(text, i)]
       IN  \E i, j \in DOMAIN keys : i < j /\ keys[i] = keys[j]

\* C28: an object text that writes a key more than once is parsed without
\* error to an Object that has each key written once, with the value
\* written at the key's last occurrence in the text.
DuplicateKeysLastWins ==
    (phase = "parse" /\ Returned /\ RepeatsAKey(input)) =>
        LET members == DOMAIN ElementTexts(input)
            keys == [i \in members |-> MemberKey(input, i)]
            last(k) == CHOOSE j \in members :
                          keys[j] = k /\ \A h \in members : keys[h] = k => h <= j
        IN  /\ result[1].kind = "Ok"
            /\ result[1].value.tag = "Object"
            /\ DOMAIN result[1].value.map = { keys[i] : i \in members }
            /\ \A i \in members :
                  result[1].value.map[keys[i]] =
                     json_parse(ValueText(ElementTexts(input)[last(keys[i])])).value

\* {"":1,"":""} was parsed to the Object that maps "" to "".
DuplicateKeysLastWinsWitness ==
    /\ phase = "parse"
    /\ Returned
    /\ input = <<Ch.lbrace, Ch.quote, Ch.quote, Ch.colon, Ch.one, Ch.comma,
                 Ch.quote, Ch.quote, Ch.colon, Ch.quote, Ch.quote, Ch.rbrace>>
    /\ result[1] = Ok(JObject([k \in {<<>>} |-> JText(<<>>)]))

\* The candidate literals of the Boolean and the Null automaton
CandidateLiterals(type) ==
    IF type = "Bool"
    THEN {<<Ch.t, Ch.r, Ch.u, Ch.e>>, <<Ch.f, Ch.a, Ch.l, Ch.s, Ch.e>>}
    ELSE {<<Ch.n, Ch.u, Ch.l, Ch.l>>}

\* text is the beginning of one of the literals
BeginsALiteral(text, literals) ==
    \E lit \in literals :
       Len(text) <= Len(lit) /\ \A i \in 1..Len(text) : text[i] = lit[i]

\* C29: a push of c to a Boolean or Null automaton returns Err(c), and
\* appends nothing, exactly when the accumulated text followed by c is not
\* the beginning of a candidate literal; otherwise it appends c and returns
\* Ok(true) exactly when the text is now a whole literal, Ok(false) if not;
\* once the text is a whole literal every push is refused.
LiteralAutomata ==
    (species \in {"Bool", "Null"} /\ answer # None) =>
        LET before == answer[1].before.inner_string
            extended == Append(before, answer[1].c)
            literals == CandidateLiterals(species)
        IN  /\ ~answer[1].ok <=> ~BeginsALiteral(extended, literals)
            /\ ~answer[1].ok =>
                  /\ answer[1].err = Some(answer[1].c)
                  /\ automaton.inner_string = before
            /\ answer[1].ok =>
                  /\ automaton.inner_string = extended
                  /\ answer[1].done <=> extended \in literals
            /\ before \in literals => ~answer[1].ok

\* "false" is complete in a Boolean automaton and a further 'e' has been
\* refused.
LiteralAutomataWitness ==
    /\ species = "Bool"
    /\ answer # None
    /\ automaton.inner_string = <<Ch.f, Ch.a, Ch.l, Ch.s, Ch.e>>
    /\ answer[1].c = Ch.e
    /\ ~answer[1].ok
    /\ answer[1].before = automaton

\* C30: when a push of c to a Text, Number, Boolean or Null automaton
\* returns Err(x), x is c and what the automaton has accumulated is what it
\* was before the call: the text and whether it is closed, the sign, the
\* position and the whole, decimal and exponent digits, the literal prefix.
RejectionDoesNotConsume ==
    (answer # None /\ ~answer[1].ok) =>
        LET before == answer[1].before
        IN  /\ answer[1].err = Some(answer[1].c)
            /\ species = "Text" =>
                  /\ automaton.inner = before.inner
                  /\ automaton.completed = before.completed
            /\ species = "Number" =>
                  /\ automaton.positive = before.positive
                  /\ automaton.position = before.position
                  /\ automaton.whole = before.whole
                  /\ automaton.decimal = before.decimal
                  /\ automaton.exponent = before.exponent
            /\ species \in {"Bool", "Null"} =>
                  automaton.inner_string = before.inner_string

\* A Text automaton holding "a" has refused a line feed.
RejectionDoesNotConsumeWitness ==
    /\ species = "Text"
    /\ answer # None
    /\ ~answer[1].ok
    /\ answer[1].c = Ch.newline
    /\ automaton.inner = <<Ch.a>>
    /\ ~automaton.completed

\* ------------------------------------------------------------------------
\* C31  Completion and finalization agree
\* ------------------------------------------------------------------------

\* C31: for a TextStack, BoolStack or NullStack, into_json returns Ok exactly
\* when some earlier push returned Ok(true), so before completion it returns
\* Err; no push of a NumberStack returns Ok(true).
CompletionAgreesWithFinalization ==
    /\ (converted # None /\ species # "Number")
          => ((converted[1] # None) <=> completion)
    /\ (species = "Number" /\ answer # None) => ~answer[1].done
    /\ species = "Number" => ~completion

\* A text of one character has been completed by its closing quote and
\* into_json has returned it.
CompletionAgreesWithFinalizationWitness ==
    /\ species = "Text"
    /\ completion
    /\ converted = Some(Some(JText(<<Ch.a>>)))

\* ------------------------------------------------------------------------
\* C32  The Text automaton outside and right after a backslash
\* ------------------------------------------------------------------------

\* The last push was made to a TextStack
TextPushed == species = "Text" /\ answer # None

\* The character each escape letter stands for
EscapedCharacter(c) ==
    CASE c = 110 -> 10
      [] c = 116 -> 9
      [] c = 114 -> 13
      [] c = 98 -> 8
      [] c = 102 -> 12
      [] c = 92 -> 92
      [] c = 34 -> 34

EscapeLetters == {110, 116, 114, 98, 102, 92, 34}

\* The stack is right after a backslash: an escape sequence with no
\* character yet
InEscapeMode(stack) ==
    stack.escape # None /\ stack.escape[1].type = "None"

\* C32: outside an escape and before completion a quote completes the string
\* with Ok(true), a backslash enters escape mode, a control character is
\* rejected and any other character is appended; in escape mode n, t, r, b,
\* f, backslash and quote append newline, tab, carriage return, backspace,
\* form feed, backslash and quote, leave escape mode and do not complete the
\* string, and any other character but u is rejected; after completion every
\* push is rejected.
TextAutomatonTable ==
    TextPushed =>
       LET c == answer[1].c
           b == answer[1].before
           ok == answer[1].ok
           done == answer[1].done
           rejected == ~ok /\ answer[1].err = Some(c)
           appended(ch) == /\ ok /\ ~done
                           /\ automaton.inner = Append(b.inner, ch)
                           /\ automaton.escape = None
                           /\ ~automaton.completed
       IN  /\ b.completed => rejected
           /\ (~b.completed /\ b.escape = None) =>
                 IF c = 34
                 THEN /\ ok /\ done /\ automaton.completed
                      /\ automaton.inner = b.inner
                 ELSE IF c = 92
                 THEN /\ ok /\ ~done /\ InEscapeMode(automaton)
                      /\ automaton.inner = b.inner /\ ~automaton.completed
                 ELSE IF IsControl(c) THEN rejected
                 ELSE appended(c)
           /\ InEscapeMode(b) =>
                 IF c \in EscapeLetters THEN appended(EscapedCharacter(c))
                 ELSE IF c = 117 THEN ok /\ ~done /\ ~automaton.completed
                 ELSE rejected

\* Backslash-n has appended a newline to a text that is still open.
TextAutomatonTableWitness ==
    /\ TextPushed
    /\ InEscapeMode(answer[1].before)
    /\ answer[1].c = Ch.n
    /\ automaton.inner = <<Ch.a, Ch.newline>>
    /\ ~automaton.completed

\* ------------------------------------------------------------------------
\* C33  Unicode escapes in the Text automaton
\* ------------------------------------------------------------------------

\* The stack is inside backslash-u, its four digits not yet complete
InUnicodeEscape(stack) ==
    stack.escape # None /\ stack.escape[1].type = "Unicode"

IsHexadecimal(c) == c \in 48..57 \/ c \in 65..70 \/ c \in 97..102

DigitValue(c) ==
    IF c <= 57 THEN c - 48 ELSE IF c <= 70 THEN c - 55 ELSE c - 87

\* The code point four hexadecimal digits spell
CodePoint(digits) ==
    ((DigitValue(digits[1]) * 16 + DigitValue(digits[2])) * 16
        + DigitValue(digits[3])) * 16 + DigitValue(digits[4])

\* The codes that are no character: the surrogates U+D800..U+DFFF
IsCharacterCode(code) == ~(55296 <= code /\ code <= 57343)

\* C33: after backslash-u each of the first three hexadecimal digits (either
\* case) is kept in the escape, and the fourth appends the character with
\* the code the four digits spell; a character that is no hexadecimal digit
\* is rejected with Err of that character, a fourth digit that completes a
\* code that is no character is rejected with Err of that digit, and the
\* string is never completed while the escape is unfinished.
UnicodeEscapes ==
    /\ (species = "Text" /\ InUnicodeEscape(automaton)) =>
          /\ Len(automaton.escape[1].hex) < 4
          /\ ~automaton.completed
    /\ (TextPushed /\ InUnicodeEscape(answer[1].before)) =>
          LET c == answer[1].c
              b == answer[1].before
              seen == b.escape[1].hex
              digits == Append(seen, c)
              rejected == ~answer[1].ok /\ answer[1].err = Some(c)
          IN  /\ ~answer[1].done
              /\ ~automaton.completed
              /\ IF ~IsHexadecimal(c) THEN rejected
                 ELSE IF Len(seen) < 3
                 THEN /\ answer[1].ok
                      /\ InUnicodeEscape(automaton)
                      /\ automaton.escape[1].hex = digits
                      /\ automaton.inner = b.inner
                 ELSE IF IsCharacterCode(CodePoint(digits))
                 THEN /\ answer[1].ok
                      /\ automaton.escape = None
                      /\ automaton.inner = Append(b.inner, CodePoint(digits))
                 ELSE rejected

\* The fourth digit of backslash-u 00aD has appended U+00AD.
UnicodeEscapesWitness ==
    /\ TextPushed
    /\ InUnicodeEscape(answer[1].before)
    /\ answer[1].before.escape[1].hex = <<Ch.zero, Ch.zero, Ch.a>>
    /\ answer[1].c = Ch.D
    /\ automaton.inner = <<173>>

\* ------------------------------------------------------------------------
\* C34  Number lookahead
\* ------------------------------------------------------------------------

\* A number is pending in the outermost call
NumberPending == processing # None /\ processing[1].tag = "Number"

\* The next iteration pushes its character into a number: a pending one, or
\* one that the character starts
PushesIntoNumber ==
    /\ AtCharacter
    /\ \/ NumberPending
       \/ processing = None
          /\ (input[consumed + 1] = 45 \/ input[consumed + 1] \in 48..57)

\* The NumberStack the next iteration pushes into
NumberBeforePush ==
    IF NumberPending THEN processing[1].stack ELSE NumberStackNew

\* C34, the step: the push into a number never rejects; after it the number
\* stays pending exactly when a next character exists and can_push accepts
\* it, otherwise into_json is called and the call holds the finalized number
\* or returns its error; the iteration consumes the one character it pushed.
NumberLookaheadStep ==
    PushesIntoNumber =>
       LET c == input[consumed + 1]
           after == NumberStackPush(NumberBeforePush, c)
           more == consumed + 2 <= Len(input)
           stays == more /\ NumberCanPush(after.stack, input[consumed + 2])
       IN  /\ after.ok
           /\ consumed' = consumed + 1
           /\ IF stays
              THEN result' = None /\ processing' = Some(Number(after.stack))
              ELSE \/ result' = None
                      /\ processing' # None
                      /\ processing'[1].tag = "Finalized"
                      /\ NumberIntoJson(after.stack)
                            = Some(processing'[1].value)
                   \/ result' # None
                      /\ result'[1].kind \in {"UnexpectedToken",
                                              "UnexpectedEOF"}
                      /\ NumberIntoJson(after.stack) = None

\* C34, the state: a pending number is in front of a character that can_push
\* has accepted.
NumberLookaheadInvariant ==
    (NumberPending /\ result = None) =>
       /\ consumed < Len(input)
       /\ NumberCanPush(processing[1].stack, input[consumed + 1])

\* C34: after each character pushed into a number the driver finalizes the
\* number exactly when there is no next character or can_push refuses it,
\* without consuming that character; a character reaches a pending number
\* only after can_push accepted it, so the push in the Number state never
\* rejects.
LookaheadDecidesFinalization ==
    []NumberLookaheadInvariant /\ [][NumberLookaheadStep]_vars

\* The second digit of a number was pushed in the Number state and the
\* number was finalized in front of a character that is left unconsumed.
LookaheadDecidesFinalizationWitness ==
    /\ result = None
    /\ IsFinalized
    /\ consumed = 2
    /\ Len(input) > 2
    /\ input[1] \in 49..57
    /\ input[2] \in 48..57

\* ------------------------------------------------------------------------
\* C35  Incomplete numbers
\* ------------------------------------------------------------------------

\* The index of the first character of text that is no whitespace
FirstSolid(text) ==
    IF \E k \in 1..Len(text) : ~IsWhitespace(text[k])
    THEN CHOOSE k \in 1..Len(text) :
            ~IsWhitespace(text[k]) /\ \A j \in 1..(k - 1) : IsWhitespace(text[j])
    ELSE Len(text) + 1

\* text without its leading whitespace
FromFirstSolid(text) == SubSeq(text, FirstSolid(text), Len(text))

\* The number text is only '-', or ends right after '.', after 'e' or 'E',
\* or after the sign of the exponent
EndsIncomplete(s) ==
    LET n == Len(s)
    IN  /\ n > 0
        /\ \/ s = <<45>>
           \/ s[n] = 46
           \/ s[n] \in {101, 69}
           \/ n >= 2 /\ s[n] \in {43, 45} /\ s[n - 1] \in {101, 69}

\* The NumberStack after the characters of s were pushed one by one, None if
\* one of them was rejected
RECURSIVE NumberAfter(_)
NumberAfter(s) ==
    IF s = <<>> THEN Some(NumberStackNew)
    ELSE LET prev == NumberAfter(SubSeq(s, 1, Len(s) - 1))
         IN  IF prev = None THEN None
             ELSE LET r == NumberStackPush(prev[1], s[Len(s)])
                  IN  IF r.ok THEN Some(r.stack) ELSE None

\* C35, at top level: when the number is finalized after a character that
\* leaves it incomplete, the call returns UnexpectedToken{next character,
\* offset of the next character} if a next character exists and
\* UnexpectedEOF if not.
IncompleteNumberStep ==
    (/\ PushesIntoNumber
     /\ EndsIncomplete(SubSeq(input, FirstSolid(input), consumed + 1))
     /\ (result' # None \/ processing' = None
                        \/ processing'[1].tag # "Number"))
       => result' = Some(IF consumed + 2 <= Len(input)
                         THEN TokErr(input[consumed + 2], consumed + 1)
                         ELSE UnexpectedEOF)

\* C35, in a container: when a delimiter or the closing bracket of the
\* pending container is used and the buffer ends in an incomplete number,
\* the call returns UnexpectedToken{that character, its offset}.
IncompleteElementStep ==
    (/\ PendingAtCharacter
     /\ error_ind' = None
     /\ content_str' # Append(content_str, input[consumed + 1])
     /\ NumberAfter(FromFirstSolid(content_str)) # None
     /\ EndsIncomplete(FromFirstSolid(content_str)))
       => result' = Some(TokErr(input[consumed + 1], consumed))

\* C35: finalization of a number fails when its text is only '-' or ends
\* right after '.', 'e', 'E' or the sign of the exponent; the driver reports
\* UnexpectedToken at the next character when there is one and
\* UnexpectedEOF at the end of the input, and the boundary of an enclosing
\* container reports UnexpectedToken at the delimiter.
IncompleteNumbers ==
    [][IncompleteNumberStep /\ IncompleteElementStep]_vars

\* "9.e": the number stopped right after '.', and the call has returned
\* UnexpectedToken{e, 2}.
IncompleteNumbersWitness ==
    /\ input = <<57, 46, 101>>
    /\ result = Some(TokErr(101, 2))

\* ------------------------------------------------------------------------
\* C36  can_push and push agree
\* ------------------------------------------------------------------------

\* The characters can_push and push are compared on
AsciiChars == 0..127

\* C36: in every state of the NumberStack and for every character c,
\* can_push(c) is true exactly when push(c) returns Ok; the push that was
\* made returned Ok exactly when can_push accepted its character in the
\* state before it.
CanPushAgreesWithPush ==
    species = "Number" =>
       /\ \A c \in AsciiChars :
             NumberCanPush(automaton, c) <=> NumberStackPush(automaton, c).ok
       /\ answer # None =>
             (answer[1].ok <=> NumberCanPush(answer[1].before, answer[1].c))

\* An 'e' right after the '.' of "9." was refused.
CanPushAgreesWithPushWitness ==
    /\ species = "Number"
    /\ answer # None
    /\ ~answer[1].ok
    /\ answer[1].c = Ch.e
    /\ automaton.position = "Decimal"
    /\ automaton.whole = <<Ch.nine>>
    /\ automaton.decimal = <<>>

\* ------------------------------------------------------------------------
\* C37  The counter and the Text automaton agree on where a string ends
\* ------------------------------------------------------------------------

\* C37: along every sequence of characters the TextStack accepts after an
\* opening quote, a StackCounter fed the same characters accepts them, keeps
\* the bracket stack it had at the opening quote, has in_string() true as
\* long as the text is not completed and false once the completing quote was
\* pushed.
CounterAgreesWithText ==
    (species = "Text" /\ companion # None) =>
       /\ companion[1].ok
       /\ companion[1].counter.inner = companion[1].start
       /\ companion[1].counter.in_string <=> ~automaton.completed

\* Inside '[', the text of a ']' and an escaped quote has been completed:
\* the counter has left the string at the same quote.
CounterAgreesWithTextWitness ==
    /\ species = "Text"
    /\ companion # None
    /\ companion[1].start = <<Ch.lbracket>>
    /\ automaton.completed
    /\ automaton.inner = <<Ch.rbracket, Ch.quote>>
    /\ ~companion[1].counter.in_string

\* ------------------------------------------------------------------------
\* C38  Prefixes of accepted texts
\* ------------------------------------------------------------------------

\* C38: when json_parse(t) returned Ok, json_parse of every proper prefix of
\* t returns Ok or UnexpectedEOF, never UnexpectedToken.
PrefixProperty ==
    (phase = "prefix" /\ Returned)
        => result[1].kind \in {"Ok", "UnexpectedEOF"}

\* "[-1]" was accepted, and its prefix "[-", which stops after the sign of
\* the number, has returned UnexpectedEOF.
PrefixPropertyWitness ==
    /\ phase = "prefix"
    /\ input = <<Ch.lbracket, Ch.minus>>
    /\ result = Some(UnexpectedEOF)

\* ------------------------------------------------------------------------
\* C39  Termination
\* ------------------------------------------------------------------------

\* A step of thread t
ThreadStep(t) == ThreadCall(t) \/ ThreadIterate(t) \/ ThreadReturn(t)

\* One call followed invocation by invocation: thread 1 calls json_parse on
\* a serialized document or one of the texts of ThreadInputs, and every
\* other thread has returned from json_parse("")
InitRecursion ==
    /\ NoCall /\ NoAccess /\ NoTracker /\ NoStack /\ NoScalar
    /\ \E text \in DocumentTexts \cup ThreadInputs :
          threads = [t \in Threads |->
                       IF t = 1
                       THEN [input |-> text,
                             frames |-> <<NewFrame(text, 0)>>,
                             result |-> None]
                       ELSE [input |-> <<>>, frames |-> <<>>,
                             result |-> Some(UnexpectedEOF)]]

\* The call is scheduled again and again while it runs: weak fairness of
\* each thread's steps, WF_vars(ThreadStep(t)), with ENABLED written out as
\* Running(t), the guard the three actions share and partition
SpecRecursion ==
    /\ InitRecursion
    /\ [][NextThreads]_vars
    /\ \A t \in Threads :
          []<>(~Running(t)) \/ []<><<ThreadStep(t)>>_vars

\* The invocations of thread t, outermost first
FramesOf(t) == threads[t].frames

\* The step is one of thread t that neither calls nor returns
IteratesIn(t) ==
    /\ threads'[t] # threads[t]
    /\ Len(threads'[t].frames) = Len(threads[t].frames)

\* The step is a recursive call of thread t
CallsIn(t) == Len(threads'[t].frames) = Len(threads[t].frames) + 1

\* C39, the steps: an iteration consumes exactly one character of the
\* innermost invocation's text and leaves the invocations below as they are;
\* a recursive call is made on the caller's buffer, which is strictly shorter
\* than the caller's text.
ConsumesAndShrinks ==
    [][\A t \in Threads :
          LET old == threads[t].frames
              new == threads'[t].frames
          IN  /\ IteratesIn(t) =>
                    /\ Top(new).consumed = Top(old).consumed + 1
                    /\ Top(new).consumed <= Len(Top(new).str)
                    /\ Top(new).str = Top(old).str
                    /\ Below(new) = Below(old)
              /\ CallsIn(t) =>
                    /\ Below(new) = old
                    /\ Top(new).str = Top(old).d.content_str
                    /\ Top(new).consumed = 0
                    /\ Len(Top(new).str) < Len(Top(old).str)
      ]_vars

\* C39, the depth: the text of each invocation is strictly shorter than its
\* caller's, so a call on a text of n characters is never more than n
\* invocations deep.
DepthBounded ==
    \A t \in Threads :
        /\ \A i \in 1..(Len(FramesOf(t)) - 1) :
              Len(FramesOf(t)[i + 1].str) < Len(FramesOf(t)[i].str)
        /\ FramesOf(t) # <<>> => FramesOf(t)[1].str = threads[t].input
        /\ Len(FramesOf(t)) <= Len(threads[t].input)

\* C39, the end: every call returns.
EveryCallReturns == <>(\A t \in Threads : threads[t].result # None)

\* C39: json_parse terminates on every input; each iteration consumes one
\* character, every recursive invocation works on a buffer strictly shorter
\* than the text of the invocation that makes it, and the depth of the
\* recursion is bounded by the length of the input.
Termination == EveryCallReturns /\ ConsumesAndShrinks /\ []DepthBounded

\* A call on "[[1]]" is three invocations deep, on "[[1]]", "[1]" and "1".
TerminationWitness ==
    \E t \in Threads :
        /\ threads[t].input
              = <<Ch.lbracket, Ch.lbracket, Ch.one, Ch.rbracket, Ch.rbracket>>
        /\ Len(FramesOf(t)) = 3
        /\ FramesOf(t)[3].str = <<Ch.one>>

====
